---- MODULE Spec2Model ----
(***************************************************************************)
(* Model of the nanobot agent runtime: the synchronous HTTP API channel    *)
(* (nanobot/channels/api.py), the message bus between channels and the     *)
(* turn engine, and the turn engine itself (nanobot/agent/loop.py) with    *)
(* the session store it writes to (nanobot/session/manager.py).            *)
(*                                                                         *)
(* Python strings are modelled as sequences of tokens: "telegram:c1" is    *)
(* <<"telegram", ":", "c1">>, concatenation is \o, and the only token that *)
(* str.split(":") looks for is ":".  None is a reserved one-token string.  *)
(***************************************************************************)
EXTENDS Integers, Sequences, FiniteSets, TLC

\* ---------------------------------------------------------------- bounds
MaxReq == 2          \* POST /chat requests ever received
MaxMsgs == 2         \* inbound messages ever published to the bus
QueueCap == 1        \* capacity of each bus queue
MaxIterations == 2   \* AgentLoop.max_iterations of the engine specification
MaxCalls == 2        \* tool calls in one LLM response
ApiMaxIterations == 1 \* AgentLoop.max_iterations of the round-trip specification
MaxRecords == 2      \* records of a session in the store specification
MaxBadLines == 1     \* blank or damaged lines in one session file
TaskMaxIterations == 1 \* AgentLoop.max_iterations of the task-list specification
OrderQueueCap == 2   \* capacity of the bus queues of the ordering specification
MaxDirect == 1       \* calls of process_direct
MaxGatewayCalls == 1 \* execute calls of the gateway tools
MaxEvents == 3       \* POST tasks the webhook emitter is asked for
MaxHookedMsgs == 1   \* inbound messages of the engine that has an emitter
MaxTurns == 21       \* turns of the long conversation: one more than max_pairs
CtxRecords == 10     \* records of the session get_structured_context is called on

\* --------------------------------------------------------------- strings
S(tok) == <<tok>>
None == <<"<None>">>
Colon == <<":">>
EmptyMeta == [k \in {} |-> TRUE]

\* dict.get(key, default)
MetaGet(m, key, default) == IF key \in DOMAIN m THEN m[key] ELSE default

\* Python truthiness of an optional string
Truthy(v) == v # None /\ v # <<>>

ApiName == S("api")
DefaultSessionId == <<"api", ":", "default">>
ErrorPrefix == S("Sorry, I encountered an error: ")
Placeholder == S("I've completed processing but have no response to give.")
SystemPlaceholder == S("Background task completed.")

\* request_id = f"api-{uuid.uuid4().hex[:12]}": the n-th request gets a fresh id
RequestId(n) == <<"api-", ToString(n)>>
ReqIds == {RequestId(n) : n \in 1..MaxReq}

VARIABLES
    apiRunning,     \* ApiChannel._running
    pending,        \* keys of ApiChannel._pending; the value under key k is future k
    fut,            \* state of the future created for each request id
    futResult,      \* result set on the future
    hpc,            \* position of each _handle_chat coroutine
    hreq,           \* JSON body of each /chat request: message, session_id
    hsid,           \* session_id local of each _handle_chat coroutine
    hresp,          \* HTTP response returned by each _handle_chat coroutine
    nextReq,        \* number of /chat requests received so far
    inbound,        \* MessageBus inbound queue
    outbound,       \* MessageBus outbound queue
    nextMid,        \* number of inbound messages published so far
    published,      \* every OutboundMessage passed to publish_outbound, in order
    running,        \* AgentLoop._running
    epc,            \* position of the AgentLoop.run coroutine
    cur,            \* msg local of run / _process_message
    route,          \* (channel, chat_id) the turn replies to
    skey,           \* key of the session the turn loaded
    messages,       \* LLM message array of the turn
    iteration,      \* iteration local
    final_content,  \* final_content local
    tool_actions,   \* tool_actions local
    todo,           \* tool calls of the current LLM response not yet executed
    executed,       \* ids of the tool calls executed for the current LLM response
    err,            \* str(e) of the exception caught by run
    llm_calls,      \* ghost: provider.chat calls the turn has made
    usages,         \* ghost: response.usage of each call that returned, in order
    tokens,         \* <<total_prompt_tokens, total_completion_tokens>>
    sessions,       \* SessionManager._cache: key -> Session (messages, metadata)
    disk,           \* session files: path -> lines
    toolCtx,        \* (channel, chat_id) held by the message/spawn/cron tools
    toolMeta,       \* metadata held by tools that accept set_metadata
    debug,          \* DebugConfig: log_tool_calls, show_token_usage
    max_iterations, \* AgentLoop.max_iterations
    queue_cap,      \* capacity of each bus queue
    savePc,         \* position of a SessionManager.save as the file system sees it
    saveKey,        \* session.key of that save
    saveLeft,       \* lines that save has not written yet
    savePrev,       \* ghost: the file as it was when that save opened it
    saveTarget,     \* ghost: the lines that save set out to write
    ctxOut,         \* the last get_structured_context call: arguments and result
    direct,         \* process_direct: position of the coroutine, calls made so far
    gw,             \* gateway tools: the registry built at construction, the last execute call
    notify,         \* _handle_notify: position, request body, response, messages published
    webhook         \* AgentLoop.webhook_emitter: url, POST tasks created, _background_tasks

apiVars == <<apiRunning, pending, fut, futResult, hpc, hreq, hsid, hresp, nextReq>>
busVars == <<inbound, outbound, nextMid, published>>
turnVars == <<cur, route, skey, messages, iteration, final_content,
              tool_actions, todo, executed, tokens, err, llm_calls, usages>>
fileVars == <<savePc, saveKey, saveLeft, savePrev, saveTarget>>
storeVars == <<sessions, disk, fileVars>>
toolVars == <<toolCtx, toolMeta>>
engineVars == <<running, epc, turnVars, storeVars, toolVars>>
config == <<debug, max_iterations, queue_cap>>
vars == <<apiVars, busVars, engineVars, config, ctxOut, direct, gw, notify, webhook>>

\* ------------------------------------------------------------ bus (spec 4.1)
\* Queue.put on a bounded queue returns only when there is room
CanPublish(q) == Len(q) < queue_cap

\* a queue that hands out its newest element
consume_inbound_newest_first(q) == <<q[Len(q)], SubSeq(q, 1, Len(q) - 1)>>

\* bus.consume_inbound: the oldest element and the queue it leaves
consume_inbound(q) == <<Head(q), Tail(q)>>

\* InboundMessage; mid is a ghost field numbering the messages in the order
\* the bus accepted them, and doubles as the logical clock of the store
InboundMessage(mid, channel, sender_id, chat_id, content, metadata) ==
    [mid |-> mid, channel |-> channel, sender_id |-> sender_id,
     chat_id |-> chat_id, content |-> content, metadata |-> metadata]

\* OutboundMessage; src is a ghost field: the inbound message of the turn
\* that produced it
OutboundMessage(src, channel, chat_id, content, metadata) ==
    [src |-> src, channel |-> channel, chat_id |-> chat_id,
     content |-> content, metadata |-> metadata]

\* InboundMessage.session_key
session_key(msg) == msg.channel \o Colon \o msg.chat_id

\* ------------------------------------------------- ApiChannel (channels/api.py)
\* web.json_response: status and the fields of the JSON body (None: absent)
Response(status, response, session_id, error) ==
    [status |-> status, response |-> response, session_id |-> session_id,
     error |-> error]
NoResponse == Response(0, None, None, None)

ChatMessage == S("ping")
Messages == {<<>>, ChatMessage}       \* request body "message" after strip()
SessionIds == {None, S("s1")}         \* request body "session_id" (None: absent)

\* BaseChannel._handle_message: build the InboundMessage of this channel
ChatInbound(mid, session_id, request_id, content) ==
    InboundMessage(mid, ApiName, session_id, request_id, content,
                   [session_id |-> session_id, request_id |-> request_id])

\* handlers that hold a message they have not handed to the bus yet
Reserved ==
    Cardinality({r \in ReqIds : hpc[r] = "publish"})
        + (IF notify.pc = "publish" THEN 1 ELSE 0)

\* _handle_chat up to the creation of the future (lines 126-138)
ChatAccept(message, sid) ==
    /\ apiRunning
    /\ nextReq < MaxReq
    /\ nextMid + Reserved < MaxMsgs
    /\ LET n == nextReq + 1
           request_id == RequestId(n)
       IN /\ nextReq' = n
          /\ hreq' = [hreq EXCEPT ![request_id] =
                         [message |-> message, session_id |-> sid]]
          /\ IF ~ Truthy(message)
             THEN /\ hpc' = [hpc EXCEPT ![request_id] = "done"]
                  /\ hresp' = [hresp EXCEPT ![request_id] =
                                  Response(400, None, None, S("message field is required"))]
                  /\ UNCHANGED <<pending, fut, hsid>>
             ELSE /\ hsid' = [hsid EXCEPT ![request_id] =
                                  IF sid = None THEN DefaultSessionId ELSE sid]
                  /\ fut' = [fut EXCEPT ![request_id] = "pending"]
                  /\ pending' = pending \cup {request_id}
                  /\ hpc' = [hpc EXCEPT ![request_id] = "publish"]
                  /\ UNCHANGED hresp
    /\ UNCHANGED <<apiRunning, futResult, busVars, engineVars, config, ctxOut, direct, gw, notify, webhook>>

\* await self._handle_message(...) (lines 141-146): returns once the bus took it
ChatPublish(r) ==
    /\ hpc[r] = "publish"
    /\ CanPublish(inbound)
    /\ nextMid' = nextMid + 1
    /\ inbound' = Append(inbound, ChatInbound(nextMid + 1, hsid[r], r, ChatMessage))
    /\ hpc' = [hpc EXCEPT ![r] = "wait"]
    /\ UNCHANGED <<apiRunning, pending, fut, futResult, hreq, hsid, hresp, nextReq,
                   outbound, published, engineVars, config, ctxOut, direct, gw, notify, webhook>>

\* asyncio.wait_for(future, 120.0) finds the future done (lines 150, 156-164)
ChatResume(r) ==
    /\ hpc[r] \in {"wait", "timerwake"}
    /\ fut[r] # "pending"
    /\ hpc' = [hpc EXCEPT ![r] = "done"]
    /\ hresp' = [hresp EXCEPT ![r] =
                    IF fut[r] = "done"
                    THEN Response(200, futResult[r], hsid[r], None)
                    ELSE Response(499, None, None, S("Request cancelled"))]
    /\ UNCHANGED <<apiRunning, pending, fut, futResult, hreq, hsid, nextReq,
                   busVars, engineVars, config, ctxOut, direct, gw, notify, webhook>>

\* the 120 s timer of wait_for fires.  Either the awaited future is cancelled
\* at once and the coroutine resumes with TimeoutError later, or the coroutine
\* is only woken and looks at the future when it runs (both occur among the
\* supported interpreters).
TimerFire(r) ==
    /\ hpc[r] = "wait"
    /\ fut[r] = "pending"
    /\ \/ /\ fut' = [fut EXCEPT ![r] = "cancelled"]
          /\ hpc' = [hpc EXCEPT ![r] = "timedout"]
       \/ /\ hpc' = [hpc EXCEPT ![r] = "timerwake"]
          /\ UNCHANGED fut
    /\ UNCHANGED <<apiRunning, pending, futResult, hreq, hsid, hresp, nextReq,
                   busVars, engineVars, config, ctxOut, direct, gw, notify, webhook>>

\* the woken coroutine finds the future still pending: wait_for cancels it
TimerCancel(r) ==
    /\ hpc[r] = "timerwake"
    /\ fut[r] = "pending"
    /\ fut' = [fut EXCEPT ![r] = "cancelled"]
    /\ hpc' = [hpc EXCEPT ![r] = "timedout"]
    /\ UNCHANGED <<apiRunning, pending, futResult, hreq, hsid, hresp, nextReq,
                   busVars, engineVars, config, ctxOut, direct, gw, notify, webhook>>

\* except asyncio.TimeoutError (lines 151-155)
ChatTimeout(r) ==
    /\ hpc[r] = "timedout"
    /\ pending' = pending \ {r}
    /\ hpc' = [hpc EXCEPT ![r] = "done"]
    /\ hresp' = [hresp EXCEPT ![r] = Response(504, None, None, S("Agent response timed out"))]
    /\ UNCHANGED <<apiRunning, fut, futResult, hreq, hsid, nextReq,
                   busVars, engineVars, config, ctxOut, direct, gw, notify, webhook>>

\* the handler task is cancelled while in wait_for: the future is cancelled
\* with it and the handler takes except asyncio.CancelledError (lines 156-159).
\* When the future already holds its result, wait_for may still return it.
ChatCancelled(r) ==
    /\ hpc[r] \in {"wait", "timerwake"}
    /\ fut' = [fut EXCEPT ![r] = IF @ = "pending" THEN "cancelled" ELSE @]
    /\ hpc' = [hpc EXCEPT ![r] = "done"]
    /\ \/ hresp' = [hresp EXCEPT ![r] =
                        Response(499, None, None, S("Request cancelled"))]
       \/ /\ fut[r] = "done"
          /\ hresp' = [hresp EXCEPT ![r] = Response(200, futResult[r], hsid[r], None)]
    /\ UNCHANGED <<apiRunning, pending, futResult, hreq, hsid, nextReq,
                   busVars, engineVars, config, ctxOut, direct, gw, notify, webhook>>

\* stop without "self._pending.clear()"
ApiStop_without_clear ==
    /\ apiRunning
    /\ apiRunning' = FALSE
    /\ fut' = [k \in DOMAIN fut |->
                 IF k \in pending /\ fut[k] = "pending" THEN "cancelled" ELSE fut[k]]
    /\ UNCHANGED <<pending, futResult, hpc, hreq, hsid, hresp, nextReq, busVars,
                   engineVars, config, ctxOut, direct, gw, notify, webhook>>

\* ApiChannel.stop (lines 66-81)
ApiStop ==
    /\ apiRunning
    /\ apiRunning' = FALSE
    /\ fut' = [k \in DOMAIN fut |->
                 IF k \in pending /\ fut[k] = "pending" THEN "cancelled" ELSE fut[k]]
    /\ pending' = {}
    /\ UNCHANGED <<futResult, hpc, hreq, hsid, hresp, nextReq, busVars, engineVars, config, ctxOut, direct, gw, notify, webhook>>

\* send without the is_final test of line 93
send_ignoring_is_final(msg) ==
    /\ pending' = pending \ {msg.chat_id}
    /\ IF msg.chat_id \in pending /\ fut[msg.chat_id] = "pending"
       THEN /\ fut' = [fut EXCEPT ![msg.chat_id] = "done"]
            /\ futResult' = [futResult EXCEPT ![msg.chat_id] = msg.content]
       ELSE UNCHANGED <<fut, futResult>>

\* send that looks the future up with get instead of pop
send_without_pop(msg) ==
    IF ~ MetaGet(msg.metadata, "is_final", FALSE)
    THEN UNCHANGED <<pending, fut, futResult>>
    ELSE /\ UNCHANGED pending
         /\ IF msg.chat_id \in pending /\ fut[msg.chat_id] = "pending"
            THEN /\ fut' = [fut EXCEPT ![msg.chat_id] = "done"]
                 /\ futResult' = [futResult EXCEPT ![msg.chat_id] = msg.content]
            ELSE UNCHANGED <<fut, futResult>>

\* ApiChannel.send (lines 83-107)
send(msg) ==
    IF ~ MetaGet(msg.metadata, "is_final", FALSE)
    THEN UNCHANGED <<pending, fut, futResult>>
    ELSE /\ pending' = pending \ {msg.chat_id}
         /\ IF msg.chat_id \in pending /\ fut[msg.chat_id] = "pending"
            THEN /\ fut' = [fut EXCEPT ![msg.chat_id] = "done"]
                 /\ futResult' = [futResult EXCEPT ![msg.chat_id] = msg.content]
            ELSE UNCHANGED <<fut, futResult>>

\* ChannelManager: consume one outbound and hand it to the sink named by
\* msg.channel; sinks other than the API channel are outside the model, and
\* an unknown channel name drops the message (spec 4.2)
Dispatch ==
    /\ outbound # <<>>
    /\ outbound' = Tail(outbound)
    /\ IF Head(outbound).channel = ApiName
       THEN send(Head(outbound))
       ELSE UNCHANGED <<pending, fut, futResult>>
    /\ UNCHANGED <<apiRunning, hpc, hreq, hsid, hresp, nextReq, inbound, nextMid,
                   published, engineVars, config, ctxOut, direct, gw, notify, webhook>>

\* ------------------------------------------- Session (session/manager.py)
\* get_structured_context defaults
min_pairs == 3
max_pairs == 20
recency_minutes == 30
max_tool_entries == 30

\* add_message that stores the record over the last one
add_message_overwriting(msgs, role, content, now, extra) ==
    IF msgs = <<>>
    THEN <<[role |-> role, content |-> content, timestamp |-> now] @@ extra>>
    ELSE [msgs EXCEPT ![Len(msgs)] =
             [role |-> role, content |-> content, timestamp |-> now] @@ extra]

\* Session.add_message; timestamps are read off a logical clock
add_message(msgs, role, content, now, extra) ==
    Append(msgs, [role |-> role, content |-> content, timestamp |-> now] @@ extra)

RECURSIVE CollectPairs(_, _, _, _)
\* the backward walk of get_structured_context (lines 93-101), 1-based indices
CollectPairs(msgs, idx, acc, maxp) ==
    IF idx < 1 \/ Len(acc) >= maxp THEN acc
    ELSE IF msgs[idx].role = "assistant" /\ idx > 1 /\ msgs[idx - 1].role = "user"
         THEN CollectPairs(msgs, idx - 2, Append(acc, <<idx - 1, idx>>), maxp)
         ELSE CollectPairs(msgs, idx - 1, acc, maxp)

\* an extension loop that stops before its first candidate
ExtendKeep_without_extension(msgs, pairs, keep, i, cutoff) == keep

RECURSIVE ExtendKeep(_, _, _, _, _)
\* the recency extension loop (lines 104-115): i is the 1-based candidate
ExtendKeep(msgs, pairs, keep, i, cutoff) ==
    IF i > Len(pairs) THEN keep
    ELSE IF msgs[pairs[i][2]].timestamp >= cutoff
         THEN ExtendKeep(msgs, pairs, i, i + 1, cutoff)
         ELSE keep

Min(a, b) == IF a <= b THEN a ELSE b

Reverse(seq) == [i \in 1..Len(seq) |-> seq[Len(seq) + 1 - i]]

RECURSIVE Flatten(_)
Flatten(seqs) == IF seqs = <<>> THEN <<>> ELSE Head(seqs) \o Flatten(Tail(seqs))

\* a selection that keeps no minimum of pairs
SelectedPairs_without_minimum(msgs, now, minp, maxp, recency) ==
    LET all_pairs == CollectPairs(msgs, Len(msgs), <<>>, maxp)
        keep == ExtendKeep(msgs, all_pairs, 0, 1, now - recency)
    IN Reverse(SubSeq(all_pairs, 1, keep))

\* pairs selected for recent_pairs, chronological (lines 93-118)
SelectedPairs(msgs, now, minp, maxp, recency) ==
    LET all_pairs == CollectPairs(msgs, Len(msgs), <<>>, maxp)
        keep0 == Min(minp, Len(all_pairs))
        keep == ExtendKeep(msgs, all_pairs, keep0, keep0 + 1, now - recency)
    IN Reverse(SubSeq(all_pairs, 1, keep))

\* list[-n:]
LastN(seq, n) ==
    IF n = 0 \/ n >= Len(seq) THEN seq ELSE SubSeq(seq, Len(seq) - n + 1, Len(seq))

\* the tool_log entries of one assistant record (lines 140-146)
ToolEntries(m) ==
    LET actions == MetaGet(m, "tool_actions", <<>>)
    IN [i \in DOMAIN actions |->
           [timestamp |-> m.timestamp, tool |-> actions[i].tool,
            args_summary |-> actions[i].args_summary, outcome |-> actions[i].outcome]]

\* Session.get_structured_context (lines 55-154); task_list is read from
\* the session metadata unchanged
get_structured_context(msgs, now, minp, maxp, recency, maxtool) ==
    LET selected == SelectedPairs(msgs, now, minp, maxp, recency)
        recent_indices == {selected[i][1] : i \in DOMAIN selected}
                            \cup {selected[i][2] : i \in DOMAIN selected}
        recent == Flatten([i \in DOMAIN selected |->
                     << [role |-> "user", content |-> msgs[selected[i][1]].content],
                        [role |-> "assistant", content |-> msgs[selected[i][2]].content] >>])
        tool_entries == Flatten([i \in DOMAIN msgs |->
                     IF i \in recent_indices \/ msgs[i].role # "assistant"
                     THEN <<>>
                     ELSE ToolEntries(msgs[i])])
    IN [recent_pairs |-> recent, tool_log |-> LastN(tool_entries, maxtool)]

\* no call yet
NoCall ==
    [called |-> FALSE, now |-> 0, min_pairs |-> 0, max_pairs |-> 0,
     recency_minutes |-> 0, max_tool_entries |-> 0,
     recent_pairs |-> <<>>, tool_log |-> <<>>]

\* a Session object: its messages and its metadata
Session(msgs, metadata) == [messages |-> msgs, metadata |-> metadata]
NewSession == Session(<<>>, EmptyMeta)

\* SessionManager._get_session_path: key.replace(":", "_") plus the suffix;
\* safe_filename leaves the other tokens alone
get_session_path(key) ==
    [i \in DOMAIN key |-> IF key[i] = ":" THEN "_" ELSE key[i]] \o S(".jsonl")

\* a line of a session file: the JSON text of a dict, a blank line, or text
\* that json.loads rejects
JsonLine(data) == [text |-> "json", data |-> data]
BlankLine == [text |-> "blank"]
GarbageLine == [text |-> "garbage"]

\* the first line save writes (lines 244-250)
MetadataLine(metadata) ==
    JsonLine(("_type" :> S("metadata")) @@ [metadata |-> metadata])

\* save that leaves the metadata line out
FileLines_without_metadata(session) ==
    [i \in DOMAIN session.messages |-> JsonLine(session.messages[i])]

\* the lines save writes for a session, in order (lines 242-254)
FileLines(session) ==
    <<MetadataLine(session.metadata)>>
        \o [i \in DOMAIN session.messages |-> JsonLine(session.messages[i])]

\* a save that leaves the file as it was
save_without_writing(files, key, session) == files
\* SessionManager.save (lines 238-256): rewrite the file of the session
save(files, key, session) == (get_session_path(key) :> FileLines(session)) @@ files

\* data.get("_type") == "metadata" (line 222)
IsMetadata(data) == "_type" \in DOMAIN data /\ data["_type"] = S("metadata")

RECURSIVE LoadLines(_, _)
\* the loop of _load (lines 215-226) over lines json.loads accepts: acc is
\* the session read so far
LoadLines(lines, acc) ==
    IF lines = <<>> THEN acc
    ELSE LET line == Head(lines)
         IN IF line.text = "blank" THEN LoadLines(Tail(lines), acc)
            ELSE IF IsMetadata(line.data)
                 THEN LoadLines(Tail(lines),
                          Session(acc.messages, MetaGet(line.data, "metadata", EmptyMeta)))
                 ELSE LoadLines(Tail(lines),
                          Session(Append(acc.messages, line.data), acc.metadata))

\* the None that _load returns when there is no file or reading it raised
NoSession == [messages |-> <<>>, metadata |-> EmptyMeta, none |-> TRUE]

\* SessionManager._load (lines 202-236): json.loads raises on the first line
\* it cannot parse and the except branch returns None
load(files, key) ==
    LET path == get_session_path(key)
    IN IF path \notin DOMAIN files THEN NoSession
       ELSE IF \E i \in DOMAIN files[path] : files[path][i].text = "garbage"
            THEN NoSession
            ELSE LoadLines(files[path], NewSession)

\* SessionManager.get_or_create (lines 180-200): the cached session, else
\* the one on disk, else a fresh one
get_or_create(cache, files, key) ==
    IF key \in DOMAIN cache THEN cache
    ELSE IF load(files, key) # NoSession THEN (key :> load(files, key)) @@ cache
    ELSE (key :> NewSession) @@ cache

\* ------------------------------------------------ ContextBuilder (agent/context.py)
\* build_messages (lines 123-188)
build_messages(ctx, current_message, channel, chat_id) ==
    << [role |-> "system",
        content |-> S("## Current Session") \o channel \o chat_id] >>
    \o ctx.recent_pairs
    \o << [role |-> "user", content |-> current_message] >>

\* add_assistant_message (lines 274-304)
add_assistant_message(msgs, content, tool_calls) ==
    Append(msgs, [role |-> "assistant",
                  content |-> IF Truthy(content) THEN content ELSE <<>>]
                 @@ (IF tool_calls # <<>> THEN [tool_calls |-> tool_calls]
                     ELSE EmptyMeta))

\* add_tool_result (lines 247-272)
add_tool_result(msgs, tool_call_id, tool_name, result) ==
    Append(msgs, [role |-> "tool", tool_call_id |-> tool_call_id,
                  name |-> tool_name, content |-> result])

\* ------------------------------------------------ other channels and the LLM
Telegram == S("telegram")
System == S("system")

\* (channel, sender_id, chat_id, metadata) of the inbound messages other
\* producers publish: a telegram user, subagent announcements on the system
\* channel, and a channel whose messages name their session (a session_id
\* that is a string, possibly the empty one)
ExternalSources ==
    { <<Telegram, S("u1"), S("c1"), EmptyMeta>>,
      <<System, S("subagent"), <<"telegram", ":", "c1">>, EmptyMeta>>,
      <<System, S("subagent"), S("direct"), EmptyMeta>>,
      <<S("web"), S("u2"), S("c2"), [session_id |-> S("s1")]>>,
      <<S("web"), S("u2"), S("c2"), [session_id |-> <<>>]>> }

\* bus.publish_inbound by a channel other than the API channel
ChannelInbound(src) ==
    /\ CanPublish(inbound)
    /\ nextMid + Reserved < MaxMsgs
    /\ nextMid' = nextMid + 1
    /\ inbound' = Append(inbound,
           InboundMessage(nextMid + 1, src[1], src[2], src[3], S("hello"), src[4]))
    /\ UNCHANGED <<apiVars, outbound, published, engineVars, config, ctxOut, direct, gw, notify, webhook>>

\* the argument a tool is summarized by (lines 656-663)
ArgName(tool_name) ==
    CASE tool_name = "exec" -> "command"
      [] tool_name \in {"read_file", "write_file", "edit_file"} -> "path"
      [] tool_name = "web_search" -> "query"
      [] tool_name = "web_fetch" -> "url"
      [] OTHER -> "text"

ToolName(i) == IF i = 1 THEN "read_file" ELSE IF i = 2 THEN "exec" ELSE "web_fetch"

\* the i-th tool call of the LLM response of iteration it
ToolCall(it, i) ==
    [id |-> <<"call", ToString(it), ToString(i)>>, name |-> ToolName(i),
     arguments |-> <<<<ArgName(ToolName(i)), S("args")>>>>]

\* LLMResponse.usage: None, or a dict that may miss either count
UsageDict(d) == [none |-> FALSE, dict |-> d]
NoUsage == [none |-> TRUE, dict |-> EmptyMeta]
Usage == UsageDict([prompt_tokens |-> 2, completion_tokens |-> 1])

\* total_prompt_tokens and total_completion_tokens after one more response
\* (lines 249-251)
accumulate_prompt_only(totals, usage) ==
    LET iter_usage == IF usage.none THEN EmptyMeta ELSE usage.dict
    IN <<totals[1] + MetaGet(iter_usage, "prompt_tokens", 0), totals[2]>>
accumulate(totals, usage) ==
    LET iter_usage == IF usage.none THEN EmptyMeta ELSE usage.dict
    IN <<totals[1] + MetaGet(iter_usage, "prompt_tokens", 0),
         totals[2] + MetaGet(iter_usage, "completion_tokens", 0)>>

\* LLMResponse values provider.chat may return in iteration it
Responses(it) ==
    {[content |-> S("pong"), tool_calls |-> <<>>, usage |-> Usage]}
    \cup {[content |-> None, tool_calls |-> [i \in 1..n |-> ToolCall(it, i)],
           usage |-> Usage] : n \in 1..MaxCalls}

Details == {S("boom")}       \* str(e) of an exception raised by provider.chat
Results == {S("ok")}         \* strings returned by tools.execute

\* ----------------------------------------------------- AgentLoop (agent/loop.py)
NoMsg == InboundMessage(0, <<>>, <<>>, <<>>, <<>>, EmptyMeta)

\* A dict of tool arguments is the sequence of its <<key, value>> items in
\* insertion order; values are strings, character by character where their
\* length matters.
\* arguments.get(key, "") or ""
ArgGet(arguments, key) ==
    LET at == {i \in DOMAIN arguments : arguments[i][1] = key}
    IN IF at = {} \/ arguments[CHOOSE i \in at : TRUE][2] = None THEN <<>>
       ELSE arguments[CHOOSE i \in at : TRUE][2]

RECURSIVE json_items(_)
\* the items of json.dumps(dict): "key": "value", separated by ", "; a key
\* counts as one character
json_items(arguments) ==
    IF arguments = <<>> THEN <<>>
    ELSE <<"\"", arguments[1][1], "\"", ":", " ", "\"">> \o arguments[1][2] \o <<"\"">>
         \o (IF Len(arguments) > 1 THEN <<",", " ">> ELSE <<>>)
         \o json_items(Tail(arguments))

\* json.dumps(arguments, ensure_ascii=False) (lines 274, 668)
json_dumps(arguments) == <<"{">> \o json_items(arguments) \o <<"}">>

\* s[:n]
Prefix(str, n) == SubSeq(str, 1, IF n <= Len(str) THEN n ELSE Len(str))

Ellipsis == <<".", ".", ".">>

\* AgentLoop._summarize_args (lines 653-669)
summarize_args(tool_name, arguments) ==
    CASE tool_name = "exec" -> Prefix(ArgGet(arguments, "command"), 180)
      [] tool_name \in {"read_file", "write_file", "edit_file"} ->
            Prefix(ArgGet(arguments, "path"), 200)
      [] tool_name = "web_search" -> Prefix(ArgGet(arguments, "query"), 200)
      [] tool_name = "web_fetch" -> Prefix(ArgGet(arguments, "url"), 200)
      [] tool_name = "message" ->
            <<"c", "h", "a", "n", "n", "e", "l", "=">> \o ArgGet(arguments, "channel")
               \o <<" ", "t", "e", "x", "t", "=">> \o Prefix(ArgGet(arguments, "text"), 100)
      [] OTHER ->
            IF Len(json_dumps(arguments)) > 200
            THEN Prefix(json_dumps(arguments), 200) \o Ellipsis
            ELSE json_dumps(arguments)

\* str.lower on the letters that matter to startswith("error")
Lower(c) ==
    CASE c = "E" -> "e" [] c = "R" -> "r" [] c = "O" -> "o" [] OTHER -> c

\* result.lower().startswith("error")
IsError(result) ==
    /\ Len(result) >= 5
    /\ [i \in 1..5 |-> Lower(result[i])] = <<"e", "r", "r", "o", "r">>

\* result.split("\n", 1)[0]
FirstLine(result) ==
    LET breaks == {i \in DOMAIN result : result[i] = "\n"}
    IN IF breaks = {} THEN result
       ELSE SubSeq(result, 1, (CHOOSE i \in breaks : \A j \in breaks : i <= j) - 1)

\* str.strip for blanks
Strip(str) ==
    LET inked == {i \in DOMAIN str : str[i] # " "}
    IN IF inked = {} THEN <<>>
       ELSE SubSeq(str, CHOOSE i \in inked : \A j \in inked : i <= j,
                        CHOOSE i \in inked : \A j \in inked : j <= i)

\* AgentLoop._summarize_outcome (lines 671-682)
summarize_outcome(result) ==
    IF ~ Truthy(result) THEN <<"O", "K", ":", " ", "(", "e", "m", "p", "t", "y", ")">>
    ELSE LET prefix == IF IsError(result)
                       THEN <<"E", "R", "R", "O", "R", ":", " ">>
                       ELSE <<"O", "K", ":", " ">>
             first_line == Strip(FirstLine(result))
             max_len == 300 - Len(prefix)
         IN IF Len(first_line) > max_len
            THEN prefix \o Prefix(first_line, max_len) \o Ellipsis
            ELSE prefix \o first_line

\* position of the first ":" token of a string, 0 when there is none
FirstColon(str) ==
    IF \E i \in DOMAIN str : str[i] = ":"
    THEN CHOOSE i \in DOMAIN str : str[i] = ":" /\ \A j \in 1..(i - 1) : str[j] # ":"
    ELSE 0

\* an origin parsing that splits at the last ":"
ParseOrigin_at_last_colon(chat_id) ==
    LET colons == {i \in DOMAIN chat_id : chat_id[i] = ":"}
        i == IF colons = {} THEN 0 ELSE CHOOSE k \in colons : \A j \in colons : j <= k
    IN IF i > 0
       THEN <<SubSeq(chat_id, 1, i - 1), SubSeq(chat_id, i + 1, Len(chat_id))>>
       ELSE <<S("cli"), chat_id>>
\* origin parsing of _process_system_message (lines 488-496)
ParseOrigin(chat_id) ==
    LET i == FirstColon(chat_id)
    IN IF i > 0
       THEN <<SubSeq(chat_id, 1, i - 1), SubSeq(chat_id, i + 1, Len(chat_id))>>
       ELSE <<S("cli"), chat_id>>

IsSystem(msg) == msg.channel = System

\* channel and chat_id the turn's reply and debug messages are addressed to
\* (lines 303, 350-351; 571, 593-594)
Routing(msg) ==
    IF IsSystem(msg) THEN ParseOrigin(msg.chat_id) ELSE <<msg.channel, msg.chat_id>>

\* a session key that ignores metadata.session_id
SessionKeyOf_ignoring_session_id(msg) ==
    IF IsSystem(msg)
    THEN ParseOrigin(msg.chat_id)[1] \o Colon \o ParseOrigin(msg.chat_id)[2]
    ELSE session_key(msg)

\* key of the session a turn works on (lines 188, 499)
SessionKeyOf(msg) ==
    IF IsSystem(msg)
    THEN ParseOrigin(msg.chat_id)[1] \o Colon \o ParseOrigin(msg.chat_id)[2]
    ELSE IF Truthy(MetaGet(msg.metadata, "session_id", None))
         THEN msg.metadata["session_id"]
         ELSE session_key(msg)

\* a loop head that tests "iteration <= self.max_iterations"
LoopHead_off_by_one(it) ==
    IF it <= max_iterations THEN <<it + 1, "llm">> ELSE <<it, "finish">>

\* the while condition and "iteration += 1" (lines 235-236, 529-530):
\* the iteration count and position after the loop head is evaluated
LoopHead(it) ==
    IF it < max_iterations THEN <<it + 1, "llm">> ELSE <<it, "finish">>

\* bus.publish_outbound
publish_outbound(msg) ==
    /\ outbound' = Append(outbound, msg)
    /\ published' = Append(published, msg)

\* ------------------------------------- webhook emitter (hooks/webhook.py)
\* A POST task created by emit: the event it carries, how _post ended
\* ("pending" while it runs) and whether the event loop has run the
\* callbacks registered with add_done_callback.
PostTask(event_type) == [event_type |-> event_type, post |-> "pending", notified |-> FALSE]

\* WebhookEmitter.__init__ (lines 25-40): tasks is the list of the tasks
\* the event loop has been handed, _background_tasks the set of the emitter
WebhookEmitter(url) ==
    [emitter |-> TRUE, url |-> url, tasks |-> <<>>, _background_tasks |-> {}]

\* AgentLoop(webhook_emitter=None)
NoEmitter == [emitter |-> FALSE, url |-> <<>>, tasks |-> <<>>, _background_tasks |-> {}]

\* an emit that creates the task and keeps no reference to it
emit_without_retaining(w, event_type) ==
    IF w.url = <<>> THEN w ELSE [w EXCEPT !.tasks = Append(@, PostTask(event_type))]
\* WebhookEmitter.emit (lines 42-68): nothing without a url; otherwise
\* the task is created and added to the set before emit returns
emit(w, event_type) ==
    IF w.url = <<>>
    THEN w
    ELSE [w EXCEPT !.tasks = Append(@, PostTask(event_type)),
                   !._background_tasks = @ \cup {Len(w.tasks) + 1}]

\* AgentLoop._emit_event (loop.py lines 355-368)
_emit_event(w, event_type) == IF w.emitter THEN emit(w, event_type) ELSE w

\* the events of one pass of the tool loop (loop.py lines 278-299)
emit_tool_events(w) == _emit_event(_emit_event(w, "tool_call"), "tool_result")

\* run (lines 127-133) takes the next message, and _process_message /
\* _process_system_message run up to the first LLM call (lines 174-236, 486-530)
Dequeue ==
    /\ running
    /\ epc = "idle"
    /\ inbound # <<>>
    /\ LET msg == consume_inbound(inbound)[1]
           key == SessionKeyOf(msg)
           cache == get_or_create(sessions, disk, key)
           ctx == get_structured_context(cache[key].messages, msg.mid, min_pairs, max_pairs,
                                         recency_minutes, max_tool_entries)
       IN /\ inbound' = consume_inbound(inbound)[2]
          /\ cur' = msg
          /\ route' = Routing(msg)
          /\ skey' = key
          /\ sessions' = cache
          /\ toolCtx' = Routing(msg)
          /\ toolMeta' = IF IsSystem(msg) THEN toolMeta ELSE msg.metadata
          /\ messages' = build_messages(ctx, msg.content, Routing(msg)[1], Routing(msg)[2])
          /\ iteration' = LoopHead(0)[1]
          /\ epc' = LoopHead(0)[2]
    /\ final_content' = None
    /\ tool_actions' = <<>>
    /\ todo' = <<>>
    /\ executed' = <<>>
    /\ tokens' = <<0, 0>>
    /\ err' = None
    /\ llm_calls' = 0
    /\ usages' = <<>>
    /\ webhook' = IF IsSystem(consume_inbound(inbound)[1])
                  THEN webhook
                  ELSE _emit_event(webhook, "user_message")
    /\ UNCHANGED <<apiVars, outbound, nextMid, published, running, disk, fileVars,
                   config, ctxOut, direct, gw, notify>>

\* provider.chat returns (lines 239-270 and 306-319; 532-553 and 574-576)
LLMRespond(response) ==
    /\ epc = "llm"
    /\ llm_calls' = llm_calls + 1
    /\ usages' = Append(usages, response.usage)
    /\ tokens' = IF IsSystem(cur) THEN tokens ELSE accumulate(tokens, response.usage)
    /\ IF Len(response.tool_calls) > 0
       THEN /\ messages' = add_assistant_message(messages, response.content,
                  [i \in DOMAIN response.tool_calls |->
                     [id |-> response.tool_calls[i].id, type |-> "function",
                      function |-> [name |-> response.tool_calls[i].name,
                                    arguments |-> json_dumps(response.tool_calls[i].arguments)]]])
            /\ todo' = response.tool_calls
            /\ executed' = <<>>
            /\ epc' = "tools"
            /\ UNCHANGED <<final_content, webhook>>
       ELSE /\ final_content' = response.content
            /\ epc' = "finish"
            /\ webhook' = IF IsSystem(cur)
                          THEN webhook
                          ELSE _emit_event(webhook, "assistant_message")
            /\ UNCHANGED <<messages, todo, executed>>
    /\ UNCHANGED <<apiVars, busVars, running, cur, route, skey, iteration,
                   tool_actions, err, storeVars, toolVars, config, ctxOut, direct, gw, notify>>

\* a provider.chat failure after which the user record is stored and saved
LLMRaise_storing_user_record(detail) ==
    /\ epc = "llm"
    /\ llm_calls' = llm_calls + 1
    /\ err' = detail
    /\ epc' = "error"
    /\ sessions' = [sessions EXCEPT ![skey] =
           Session(add_message(@.messages, "user", cur.content, cur.mid, EmptyMeta),
                   @.metadata)]
    /\ disk' = save(disk, skey, sessions'[skey])
    /\ UNCHANGED <<apiVars, busVars, running, cur, route, skey, messages, iteration,
                   final_content, tool_actions, todo, executed, tokens, usages,
                   fileVars, toolVars, config, ctxOut, direct, gw, notify, webhook>>
\* provider.chat raises: the exception leaves _process_message and is caught
\* in run (line 145)
LLMRaise(detail) ==
    /\ epc = "llm"
    /\ llm_calls' = llm_calls + 1
    /\ err' = detail
    /\ epc' = "error"
    /\ UNCHANGED <<apiVars, busVars, running, cur, route, skey, messages, iteration,
                   final_content, tool_actions, todo, executed, tokens, usages,
                   storeVars, toolVars, config, ctxOut, direct, gw, notify, webhook>>

\* position after one tool call was handled: the next call of the response,
\* else the loop head
AfterTool(rest, it) == IF rest # <<>> THEN <<it, "tools">> ELSE LoopHead(it)

\* a loop over the tool calls that takes them from the end of the list
ToolExec_last_first(result) ==
    /\ epc = "tools"
    /\ LET tool_call == todo[Len(todo)]
           rest == SubSeq(todo, 1, Len(todo) - 1)
       IN /\ messages' = add_tool_result(messages, tool_call.id, tool_call.name, result)
          /\ tool_actions' = Append(tool_actions,
                 [tool |-> tool_call.name,
                  args_summary |-> summarize_args(tool_call.name, tool_call.arguments),
                  outcome |-> summarize_outcome(result)])
          /\ executed' = Append(executed, tool_call.id)
          /\ todo' = rest
          /\ IF debug.log_tool_calls
             THEN epc' = "debug" /\ UNCHANGED iteration
             ELSE /\ iteration' = AfterTool(rest, iteration)[1]
                  /\ epc' = AfterTool(rest, iteration)[2]
    /\ webhook' = IF IsSystem(cur) THEN webhook ELSE emit_tool_events(webhook)
    /\ UNCHANGED <<apiVars, busVars, running, cur, route, skey, final_content,
                   tokens, err, llm_calls, usages, storeVars, toolVars, config, ctxOut, direct, gw, notify>>

\* one pass of "for tool_call in response.tool_calls" up to the debug
\* message (lines 273-299, 555-567)
ToolExec(result) ==
    /\ epc = "tools"
    /\ LET tool_call == Head(todo)
       IN /\ messages' = add_tool_result(messages, tool_call.id, tool_call.name, result)
          /\ tool_actions' = Append(tool_actions,
                 [tool |-> tool_call.name,
                  args_summary |-> summarize_args(tool_call.name, tool_call.arguments),
                  outcome |-> summarize_outcome(result)])
          /\ executed' = Append(executed, tool_call.id)
          /\ todo' = Tail(todo)
          /\ IF debug.log_tool_calls
             THEN epc' = "debug" /\ UNCHANGED iteration
             ELSE /\ iteration' = AfterTool(Tail(todo), iteration)[1]
                  /\ epc' = AfterTool(Tail(todo), iteration)[2]
    /\ webhook' = IF IsSystem(cur) THEN webhook ELSE emit_tool_events(webhook)
    /\ UNCHANGED <<apiVars, busVars, running, cur, route, skey, final_content,
                   tokens, err, llm_calls, usages, storeVars, toolVars, config, ctxOut, direct, gw, notify>>

Last(seq) == seq[Len(seq)]

\* _debug_tool_call (lines 386-409) for the tool call just executed
DebugPublish ==
    /\ epc = "debug"
    /\ CanPublish(outbound)
    /\ publish_outbound(OutboundMessage(cur, route[1], route[2],
           <<"Tool Call:", Last(messages).name>> \o Last(tool_actions).args_summary
              \o Last(messages).content,
           [is_debug |-> TRUE]))
    /\ iteration' = AfterTool(todo, iteration)[1]
    /\ epc' = AfterTool(todo, iteration)[2]
    /\ UNCHANGED <<apiVars, inbound, nextMid, running, cur, route, skey, messages,
                   final_content, tool_actions, todo, executed, tokens, err,
                   llm_calls, usages, storeVars, toolVars, config, ctxOut, direct, gw, notify, webhook>>

\* ------------------------------------------------ task list (lines 627-756)
\* Strings of this part are sequences of characters where their length
\* matters (task descriptions) and of words otherwise.
FrappePrefixes ==
    {<<"nanonet-messaging", ":">>, <<"nanonet-dm", ":">>, <<"nanonet-ctx", ":">>}

\* str.startswith
StartsWith(s, prefix) ==
    Len(s) >= Len(prefix) /\ SubSeq(s, 1, Len(prefix)) = prefix

\* s.split(":")[0]
FirstPart(s) ==
    LET colons == {i \in DOMAIN s : s[i] = ":"}
    IN IF colons = {} THEN s
       ELSE SubSeq(s, 1, (CHOOSE i \in colons : \A j \in colons : i <= j) - 1)

\* AgentLoop._extract_frappe_channel (lines 627-651)
extract_frappe_channel(metadata) ==
    LET session_id == MetaGet(metadata, "session_id", <<>>)
        found == {prefix \in FrappePrefixes :
                     /\ StartsWith(session_id, prefix)
                     /\ FirstPart(SubSeq(session_id, Len(prefix) + 1, Len(session_id))) # <<>>}
    IN IF session_id = <<>> \/ found = {} THEN None
       ELSE LET prefix == CHOOSE q \in found : TRUE
            IN FirstPart(SubSeq(session_id, Len(prefix) + 1, Len(session_id)))

\* where the turn goes after its save: to the secondary LLM call when the
\* message names a frappe channel, else to the reply (lines 333-337, 586-590)
AfterSave(msg) ==
    IF extract_frappe_channel(msg.metadata) # None THEN "tasklist" ELSE "reply"

\* the text of the secondary LLM response: brackets, prose and JSON values
LB == [t |-> "["]
RB == [t |-> "]"]
Prose == [t |-> "txt"]
Val(v) == [t |-> "val", v |-> v]
JStr(chars) == [kind |-> "str", s |-> chars]
JNum(digits) == [kind |-> "num", s |-> digits]
JNull == [kind |-> "null"]
JObj(fields) == [kind |-> "obj", fields |-> fields]

\* response.content is None
NoContent == <<[t |-> "none"]>>
IsNoContent(content) == Len(content) = 1 /\ content[1].t = "none"

\* re.search(r'\[.*\]', text, re.DOTALL): from the first "[" to the last "]"
\* (line 743); the empty sequence when there is no match
re_search(text) ==
    LET opens == {i \in DOMAIN text : text[i].t = "["}
        closes == {i \in DOMAIN text : text[i].t = "]"}
    IN IF \E i \in opens, j \in closes : i < j
       THEN SubSeq(text, CHOOSE i \in opens : \A k \in opens : i <= k,
                         CHOOSE j \in closes : \A k \in closes : k <= j)
       ELSE <<>>

\* json.loads of a span that starts with "[" and ends with "]": it parses
\* when everything between the brackets is a value (line 745)
json_parses(span) ==
    \A i \in 2..(Len(span) - 1) : span[i].t = "val"
json_loads(span) == [i \in 1..(Len(span) - 2) |-> span[i + 1].v]

\* str(t["task"]) (line 750)
str(v) ==
    CASE v.kind \in {"str", "num"} -> v.s
      [] v.kind = "null" -> <<"N", "o", "n", "e">>
      [] OTHER -> <<"{", "}">>

TaskStatuses == {S("pending"), S("in_progress"), S("completed")}

\* isinstance(t, dict) and "task" in t and "status" in t (line 748)
IsTask(t) ==
    t.kind = "obj" /\ "task" \in DOMAIN t.fields /\ "status" \in DOMAIN t.fields

\* the entry appended for an element that passed (lines 749-752)
TaskEntry(t) ==
    [task |-> SubSeq(str(t.fields.task), 1, Min(80, Len(str(t.fields.task)))),
     status |-> IF t.fields.status.kind = "str" /\ t.fields.status.s \in TaskStatuses
                THEN t.fields.status.s ELSE S("pending")]

\* a validation loop over all of task_list
validate_uncapped(task_list) ==
    LET kept == SelectSeq(task_list, IsTask)
    IN [i \in DOMAIN kept |-> TaskEntry(kept[i])]

\* the validation loop over task_list[:10] (lines 746-752)
validate(task_list) ==
    LET kept == SelectSeq(SubSeq(task_list, 1, Min(10, Len(task_list))), IsTask)
    IN [i \in DOMAIN kept |-> TaskEntry(kept[i])]

\* the metadata of the session after _update_task_list got the response
\* content (lines 742-756); content None makes .strip() raise
update_task_list(metadata, content) ==
    IF IsNoContent(content) THEN metadata
    ELSE IF re_search(content) = <<>> THEN metadata
    ELSE IF ~ json_parses(re_search(content)) THEN metadata
    ELSE ("task_list" :> validate(json_loads(re_search(content)))) @@ metadata

\* the end of a turn without the placeholder substitution
Finish_without_placeholder ==
    /\ epc = "finish"
    /\ LET user == IF IsSystem(cur)
                   THEN S("[System: ") \o cur.sender_id \o S("] ") \o cur.content
                   ELSE cur.content
           msgs == add_message(
                       add_message(sessions[skey].messages, "user", user, cur.mid, EmptyMeta),
                       "assistant", final_content, cur.mid, [tool_actions |-> tool_actions])
           session == Session(msgs, sessions[skey].metadata)
       IN /\ sessions' = [sessions EXCEPT ![skey] = session]
          /\ disk' = save(disk, skey, session)
    /\ epc' = AfterSave(cur)
    /\ UNCHANGED <<apiVars, busVars, running, cur, route, skey, messages, iteration,
                   final_content, tool_actions, todo, executed, tokens, err, llm_calls, usages,
                   fileVars, toolVars, config, ctxOut, direct, gw, notify, webhook>>

\* the rest of the turn after the loop, up to the return of the reply
\* (lines 321-331, 578-584)
Finish ==
    /\ epc = "finish"
    /\ LET content == IF final_content = None
                      THEN (IF IsSystem(cur) THEN SystemPlaceholder ELSE Placeholder)
                      ELSE final_content
           user == IF IsSystem(cur)
                   THEN S("[System: ") \o cur.sender_id \o S("] ") \o cur.content
                   ELSE cur.content
           msgs == add_message(
                       add_message(sessions[skey].messages, "user", user, cur.mid, EmptyMeta),
                       "assistant", content, cur.mid, [tool_actions |-> tool_actions])
           session == Session(msgs, sessions[skey].metadata)
       IN /\ final_content' = content
          /\ sessions' = [sessions EXCEPT ![skey] = session]
          /\ disk' = save(disk, skey, session)
    /\ epc' = AfterSave(cur)
    /\ UNCHANGED <<apiVars, busVars, running, cur, route, skey, messages, iteration,
                   tool_actions, todo, executed, tokens, err, llm_calls, usages, fileVars,
                   toolVars, config, ctxOut, direct, gw, notify, webhook>>

\* the secondary provider.chat returns content; the task list is validated
\* and stored, and the session is saved again (lines 732-754, 337, 590)
TaskListRespond(content) ==
    /\ epc = "tasklist"
    /\ LET session == Session(sessions[skey].messages,
                              update_task_list(sessions[skey].metadata, content))
       IN /\ sessions' = [sessions EXCEPT ![skey] = session]
          /\ disk' = save(disk, skey, session)
    /\ epc' = "reply"
    /\ UNCHANGED <<apiVars, busVars, running, turnVars, fileVars, toolVars, config, ctxOut, direct, gw, notify, webhook>>

\* the secondary provider.chat raises; the exception is logged and the
\* session is saved again (lines 755-756, 337, 590)
TaskListRaise ==
    /\ epc = "tasklist"
    /\ disk' = save(disk, skey, sessions[skey])
    /\ epc' = "reply"
    /\ UNCHANGED <<apiVars, busVars, running, turnVars, sessions, fileVars, toolVars,
                   config, ctxOut, direct, gw, notify, webhook>>

\* the token usage footer (lines 340-347)
Footer ==
    <<"\n\n---\n", ToString(tokens[1]), " in ", ToString(tokens[2]), " out ",
      ToString(tokens[1] + tokens[2]), " total ", ToString(iteration),
      IF iteration # 1 THEN " calls" ELSE " call">>

\* the OutboundMessage the turn returns (lines 340-353, 592-596)
Reply ==
    OutboundMessage(cur, route[1], route[2],
        IF ~ IsSystem(cur) /\ debug.show_token_usage
        THEN final_content \o Footer ELSE final_content,
        EmptyMeta)

\* locals of a finished turn
EndTurn ==
    /\ epc' = "idle"
    /\ cur' = NoMsg
    /\ route' = <<<<>>, <<>>>>
    /\ skey' = <<>>
    /\ messages' = <<>>
    /\ iteration' = 0
    /\ final_content' = None
    /\ tool_actions' = <<>>
    /\ todo' = <<>>
    /\ executed' = <<>>
    /\ tokens' = <<0, 0>>
    /\ err' = None
    /\ llm_calls' = 0
    /\ usages' = <<>>

\* run marks the returned reply final and publishes it (lines 138-144)
PublishReply ==
    /\ epc = "reply"
    /\ CanPublish(outbound)
    /\ publish_outbound([Reply EXCEPT !.metadata = ("is_final" :> TRUE) @@ @])
    /\ EndTurn
    /\ UNCHANGED <<apiVars, inbound, nextMid, running, storeVars, toolVars, config, ctxOut, direct, gw, notify, webhook>>

\* an error reply that is not marked final
PublishError_without_is_final ==
    /\ epc = "error"
    /\ CanPublish(outbound)
    /\ publish_outbound(OutboundMessage(cur, cur.channel, cur.chat_id,
                                        ErrorPrefix \o err, EmptyMeta))
    /\ EndTurn
    /\ UNCHANGED <<apiVars, inbound, nextMid, running, storeVars, toolVars, config, ctxOut, direct, gw, notify, webhook>>

\* the error reply of run (lines 145-153)
PublishError ==
    /\ epc = "error"
    /\ CanPublish(outbound)
    /\ publish_outbound(OutboundMessage(cur, cur.channel, cur.chat_id,
                                        ErrorPrefix \o err, [is_final |-> TRUE]))
    /\ EndTurn
    /\ UNCHANGED <<apiVars, inbound, nextMid, running, storeVars, toolVars, config, ctxOut, direct, gw, notify, webhook>>

\* AgentLoop.stop (lines 157-160)
EngineStop ==
    /\ running
    /\ running' = FALSE
    /\ UNCHANGED <<apiVars, busVars, epc, turnVars, storeVars, toolVars, config, ctxOut, direct, gw, notify, webhook>>

\* ------------------------------------------------------------ specification
\* DebugConfig values: everything off (the default) and everything on
DebugConfigs ==
    { [log_tool_calls |-> FALSE, show_token_usage |-> FALSE],
      [log_tool_calls |-> TRUE, show_token_usage |-> TRUE] }

\* ----------------------------------------------------------- gateway tools
\* a JSON value true or false
JBool(b) == [kind |-> "bool", b |-> b]

\* an object with the keys of full whose value is not "absent"
Object(full) ==
    JObj([k \in {key \in DOMAIN full : full[key].kind # "absent"} |-> full[k]])

\* dict.get(key, default) on a parsed JSON object
dict_get(obj, key, default) ==
    IF key \in DOMAIN obj.fields THEN obj.fields[key] ELSE default

\* the truth value Python gives a parsed JSON value
bool(v) ==
    CASE v.kind = "str" -> v.s # <<>>
      [] v.kind = "num" -> v.s # S("0")
      [] v.kind = "bool" -> v.b
      [] v.kind = "obj" -> DOMAIN v.fields # {}
      [] OTHER -> FALSE

\* the order in which a gateway object lists its keys
ObjectKeys == <<"pending_approval", "success", "status", "request_id", "result", "error">>

\* json.dumps of a scalar value
json_value(v) ==
    CASE v.kind = "str" -> <<"\"">> \o v.s \o <<"\"">>
      [] v.kind = "num" -> v.s
      [] v.kind = "bool" -> IF v.b THEN S("true") ELSE S("false")
      [] v.kind = "null" -> S("null")
      [] OTHER -> <<"{", "}">>

RECURSIVE json_members(_, _)
json_members(obj, keys) ==
    IF keys = <<>> THEN <<>>
    ELSE LET rest == json_members(obj, Tail(keys))
         IN IF Head(keys) \in DOMAIN obj.fields
            THEN <<"\"", Head(keys), "\"", ":", " ">> \o json_value(obj.fields[Head(keys)])
                 \o (IF rest = <<>> THEN <<>> ELSE <<",", " ">> \o rest)
            ELSE rest

\* json.dumps(message) (gateway.py lines 91 and 172)
json_dumps_object(obj) == <<"{">> \o json_members(obj, ObjectKeys) \o <<"}">>

\* what one HTTP POST comes to: a 2xx response with a body that parses
\* (data), a non-2xx status, a transport failure, or a body that is not JSON
HttpOk(data) == [http |-> "ok", status |-> S("200"), data |-> data]
HttpStatus(status) == [http |-> "status", status |-> status, data |-> JNull]
HttpTransport == [http |-> "transport", status |-> <<>>, data |-> JNull]
HttpBadJson == [http |-> "badjson", status |-> <<>>, data |-> JNull]

\* how a try body ends: with a return value, or with an exception
Returned(value) == [raised |-> FALSE, exc |-> "", value |-> value]
Raised(exc, e) == [raised |-> TRUE, exc |-> exc, value |-> e]

ErrorWord == <<"E", "r", "r", "o", "r">>

\* client.post, raise_for_status, resp.json and data.get("message", {})
\* (lines 61-74 and 140-153)
post_message(outcome) ==
    CASE outcome.http = "status" -> Raised("HTTPStatusError", outcome.status)
      [] outcome.http = "transport" -> Raised("ConnectError", S("connection failed"))
      [] outcome.http = "badjson" -> Raised("JSONDecodeError", S("Expecting value"))
      [] OTHER ->
            IF outcome.data.kind # "obj"
            THEN Raised("AttributeError", S("object has no attribute 'get'"))
            ELSE Returned(dict_get(outcome.data, "message", JObj(EmptyMeta)))

\* message.get on what data.get("message", {}) returned: a string has been
\* returned before, anything else that is no object has no get
HasGet(message) == message.kind = "obj"

\* the text of a pending approval (lines 79-85)
approval_text_without_request_id(hint, request_id) ==
    str(hint) \o <<"\n", "\n", "Approval pending">>
        \o <<"\n", "Use the check_approval_result tool with this request_id to poll for the outcome.">>
approval_text(hint, request_id) ==
    str(hint) \o <<"\n", "\n", "Approval pending -- ", "request_id: ">> \o str(request_id)
        \o <<"\n", "Use the check_approval_result tool with this request_id to poll for the outcome.">>

\* the try body of GatewayTool.execute (lines 60-91)
gateway_try(outcome) ==
    LET posted == post_message(outcome)
        message == posted.value
    IN IF posted.raised THEN posted
       ELSE IF message.kind = "str" THEN Returned(message.s)
       ELSE IF ~ HasGet(message)
            THEN Raised("AttributeError", S("object has no attribute 'get'"))
       ELSE IF bool(dict_get(message, "pending_approval", JNull))
            THEN Returned(approval_text(
                     dict_get(message, "result", JStr(S("This tool requires approval."))),
                     dict_get(message, "request_id", JStr(<<>>))))
       ELSE IF bool(dict_get(message, "success", JNull))
            THEN Returned(str(dict_get(message, "result", JStr(<<>>))))
       ELSE IF bool(dict_get(message, "result", JNull))
            THEN Returned(str(dict_get(message, "result", JNull)))
       ELSE IF bool(dict_get(message, "error", JNull))
            THEN Returned(str(dict_get(message, "error", JNull)))
       ELSE Returned(json_dumps_object(message))

\* the except clauses of GatewayTool.execute (lines 93-98)
gateway_except_without_catch_all(name, thrown) ==
    IF thrown.exc = "HTTPStatusError"
    THEN Returned(ErrorWord \o <<" calling ">> \o name \o <<": HTTP ">> \o thrown.value)
    ELSE thrown
gateway_except(name, thrown) ==
    IF thrown.exc = "HTTPStatusError"
    THEN Returned(ErrorWord \o <<" calling ">> \o name \o <<": HTTP ">> \o thrown.value)
    ELSE Returned(ErrorWord \o <<" calling ">> \o name \o <<": ">> \o thrown.value)

\* GatewayTool.execute (lines 52-98): what the call comes to, and the
\* number of HTTP requests it made
GatewayTool_execute(name, outcome) ==
    LET body == gateway_try(outcome)
    IN [result |-> IF body.raised THEN gateway_except(name, body) ELSE body,
        requests |-> 1]

\* status == "Pending" and the like: status is whatever JSON value the body held
IsStr(v, text) == v.kind = "str" /\ v.s = text

\* status.lower() (line 170)
status_lower(s) ==
    CASE s = S("Denied") -> S("denied")
      [] s = S("Expired") -> S("expired")
      [] OTHER -> s

\* the text by status (lines 160-172)
status_text_result_always(request_id, status, result, message) ==
    CASE IsStr(status, S("Pending")) ->
            <<"Request ">> \o str(request_id)
                \o <<" is still pending approval. Try again shortly.">>
      [] IsStr(status, S("Completed")) \/ IsStr(status, S("Approved")) -> str(result)
      [] IsStr(status, S("Denied")) \/ IsStr(status, S("Expired")) ->
            <<"Request ">> \o str(request_id) \o <<" was ">>
                \o status_lower(status.s) \o <<".">>
      [] OTHER -> json_dumps_object(message)
status_text(request_id, status, result, message) ==
    CASE IsStr(status, S("Pending")) ->
            <<"Request ">> \o str(request_id)
                \o <<" is still pending approval. Try again shortly.">>
      [] IsStr(status, S("Completed")) ->
            IF bool(result) THEN str(result)
            ELSE S("Tool executed successfully (no output).")
      [] IsStr(status, S("Approved")) ->
            IF bool(result) THEN str(result)
            ELSE <<"Request ">> \o str(request_id)
                     \o <<" was approved but result is not yet available. Try again.">>
      [] IsStr(status, S("Denied")) \/ IsStr(status, S("Expired")) ->
            <<"Request ">> \o str(request_id) \o <<" was ">>
                \o status_lower(status.s) \o <<".">>
      [] OTHER -> json_dumps_object(message)

\* the try body of CheckApprovalResultTool.execute (lines 139-172)
check_try(request_id, outcome) ==
    LET posted == post_message(outcome)
        message == posted.value
    IN IF posted.raised THEN posted
       ELSE IF message.kind = "str" THEN Returned(message.s)
       ELSE IF ~ HasGet(message)
            THEN Raised("AttributeError", S("object has no attribute 'get'"))
       ELSE Returned(status_text(request_id,
                                 dict_get(message, "status", JStr(<<>>)),
                                 dict_get(message, "result", JNull),
                                 message))

\* the except clauses of CheckApprovalResultTool.execute (lines 174-179)
check_except(thrown) ==
    IF thrown.exc = "HTTPStatusError"
    THEN Returned(ErrorWord \o <<" checking result: HTTP ">> \o thrown.value)
    ELSE Returned(ErrorWord \o <<" checking result: ">> \o thrown.value)

\* CheckApprovalResultTool.execute (lines 132-179); kwargs is an object
CheckApprovalResultTool_execute(kwargs, outcome) ==
    LET request_id == dict_get(kwargs, "request_id", JStr(<<>>))
        body == check_try(request_id, outcome)
    IN IF ~ bool(request_id)
       THEN [result |-> Returned(ErrorWord \o <<": request_id is required.">>),
             requests |-> 0]
       ELSE [result |-> IF body.raised THEN check_except(body) ELSE body,
             requests |-> 1]

\* what load_gateway_tools is given: a SkillgateConfig, or the workspace path
SkillgateConfig(enabled, url, api_key, api_secret, tools) ==
    [kind |-> "SkillgateConfig", enabled |-> enabled, url |-> url,
     api_key |-> api_key, api_secret |-> api_secret, tools |-> tools]
Path == [kind |-> "Path", enabled |-> FALSE, url |-> <<>>,
         api_key |-> <<>>, api_secret |-> <<>>, tools |-> <<>>]

\* the names of the GatewayTools built from skillgate_config.tools (lines 198-210)
RECURSIVE named_tools(_)
named_tools(tool_defs) ==
    IF tool_defs = <<>> THEN <<>>
    ELSE LET name == dict_get(Head(tool_defs), "name", JNull)
         IN (IF bool(name) THEN <<name.s>> ELSE <<>>) \o named_tools(Tail(tool_defs))

CheckApprovalResult == S("check_approval_result")

\* load_gateway_tools (lines 182-220): the names of the tools it returns
load_gateway_tools(skillgate_config) ==
    IF skillgate_config.kind # "SkillgateConfig"
    THEN Raised("AttributeError", S("object has no attribute 'enabled'"))
    ELSE IF ~ skillgate_config.enabled THEN Returned(<<>>)
    ELSE IF skillgate_config.url = <<>> \/ skillgate_config.api_key = <<>> \/ skillgate_config.api_secret = <<>>
         THEN Returned(<<>>)
    ELSE Returned(named_tools(skillgate_config.tools) \o <<CheckApprovalResult>>)

\* the tools registered before the gateway tools (loop.py lines 88-116)
DefaultTools ==
    {S("read_file"), S("write_file"), S("edit_file"), S("list_dir"), S("exec"),
     S("web_search"), S("web_fetch"), S("message"), S("spawn")}

\* AgentLoop._register_default_tools (loop.py lines 86-120): the registry
\* it leaves, a dict by tool name; the gateway tools are loaded from
\* self.workspace
_register_default_tools(workspace) ==
    LET loaded == load_gateway_tools(workspace)
    IN IF loaded.raised THEN loaded
       ELSE Returned(DefaultTools \cup {loaded.value[i] : i \in DOMAIN loaded.value})

\* no engine constructed, no gateway call made
NoGateway ==
    [constructed |-> "no", skillgate |-> Path, registry |-> {},
     tool |-> "", name |-> <<>>, kwargs |-> JObj(EmptyMeta), outcome |-> HttpTransport,
     result |-> Returned(<<>>), requests |-> 0, calls |-> 0]

\* a /notify request body: whether it parses, and its three fields as sent
\* (the empty string when the key is absent)
NotifyBody(json, message, channel, chat_id) ==
    [json |-> json, message |-> message, channel |-> channel, chat_id |-> chat_id]

\* no /notify request yet; sent is a ghost field: the messages the handler
\* has published, each with the channel and chat_id of its request
NoNotify ==
    [pc |-> "idle", body |-> NotifyBody(TRUE, <<>>, <<>>, <<>>), resp |-> NoResponse,
     sent |-> <<>>]

\* the API channel is started and run() has entered its loop
InitState ==
    /\ apiRunning = TRUE
    /\ pending = {}
    /\ fut = [r \in ReqIds |-> "none"]
    /\ futResult = [r \in ReqIds |-> None]
    /\ hpc = [r \in ReqIds |-> "idle"]
    /\ hreq = [r \in ReqIds |-> [message |-> <<>>, session_id |-> None]]
    /\ hsid = [r \in ReqIds |-> None]
    /\ hresp = [r \in ReqIds |-> NoResponse]
    /\ nextReq = 0
    /\ inbound = <<>>
    /\ outbound = <<>>
    /\ nextMid = 0
    /\ published = <<>>
    /\ running = TRUE
    /\ epc = "idle"
    /\ cur = NoMsg
    /\ route = <<<<>>, <<>>>>
    /\ skey = <<>>
    /\ messages = <<>>
    /\ iteration = 0
    /\ final_content = None
    /\ tool_actions = <<>>
    /\ todo = <<>>
    /\ executed = <<>>
    /\ tokens = <<0, 0>>
    /\ err = None
    /\ llm_calls = 0
    /\ usages = <<>>
    /\ sessions = EmptyMeta
    /\ disk = EmptyMeta
    /\ savePc = "idle"
    /\ saveKey = <<>>
    /\ saveLeft = <<>>
    /\ savePrev = [exists |-> FALSE, lines |-> <<>>]
    /\ saveTarget = <<>>
    /\ ctxOut = NoCall
    /\ direct = [pc |-> "idle", calls |-> 0]
    /\ gw = NoGateway
    /\ notify = NoNotify
    /\ toolCtx = <<<<>>, <<>>>>
    /\ toolMeta = EmptyMeta
    /\ debug \in DebugConfigs

\* steps of the /chat handlers and of the API channel
ApiNext ==
    \/ \E message \in Messages, sid \in SessionIds : ChatAccept(message, sid)
    \/ \E r \in ReqIds : ChatPublish(r)
    \/ \E r \in ReqIds : ChatResume(r)
    \/ \E r \in ReqIds : TimerFire(r)
    \/ \E r \in ReqIds : TimerCancel(r)
    \/ \E r \in ReqIds : ChatTimeout(r)
    \/ \E r \in ReqIds : ChatCancelled(r)
    \/ ApiStop

\* steps of the turn engine and of the outbound dispatcher
EngineNext ==
    \/ Dequeue
    \/ \E response \in Responses(iteration) : LLMRespond(response)
    \/ \E detail \in Details : LLMRaise(detail)
    \/ \E result \in Results : ToolExec(result)
    \/ DebugPublish
    \/ Finish
    \/ PublishReply
    \/ PublishError
    \/ EngineStop
    \/ Dispatch

\* the synchronous HTTP round trip: /chat requests are the only producers
Init == InitState /\ max_iterations = ApiMaxIterations /\ queue_cap = QueueCap /\ webhook = NoEmitter
Next == ApiNext \/ EngineNext
Spec == Init /\ [][Next]_vars

\* the turn engine fed by the other channels
EngineInit == InitState /\ max_iterations = MaxIterations /\ queue_cap = QueueCap /\ webhook = NoEmitter
EngineSpecNext == (\E src \in ExternalSources : ChannelInbound(src)) \/ EngineNext
EngineSpec == EngineInit /\ [][EngineSpecNext]_vars

\* the round trip with the scheduling the event loop guarantees: a handler
\* that can run does run, timers fire, the dispatcher and the engine's own
\* steps are taken; nothing forces the LLM to answer or the client to stay
HandlerStep(r) ==
    ChatPublish(r) \/ ChatResume(r) \/ TimerFire(r) \/ TimerCancel(r) \/ ChatTimeout(r)
EngineOwnStep ==
    \/ Dequeue
    \/ \E result \in Results : ToolExec(result)
    \/ DebugPublish \/ Finish \/ PublishReply \/ PublishError
FairSpec ==
    /\ Spec
    /\ \A r \in ReqIds : WF_vars(HandlerStep(r))
    /\ WF_vars(Dispatch)
    /\ WF_vars(EngineOwnStep)

\* the engine when every LLM call and tool execution returns and the
\* dispatcher keeps draining the outbound queue
TurnStep ==
    \/ \E response \in Responses(iteration) : LLMRespond(response)
    \/ \E detail \in Details : LLMRaise(detail)
    \/ \E result \in Results : ToolExec(result)
    \/ DebugPublish \/ Finish \/ PublishReply \/ PublishError
EngineLiveSpec == EngineSpec /\ WF_vars(TurnStep) /\ WF_vars(Dispatch)

\* ------------------------------------------------- the session store alone
\* The files of the sessions directory as another process or a restarted
\* one sees them: save is followed write by write, the process may end at
\* any point, and a file may pick up lines that save did not write.
StoreKeys == {<<"a", ":", "b">>, <<"a", "_", "b">>}

\* tool_actions lists of a stored assistant record
StoreActions ==
    { <<>>,
      <<[tool |-> "read_file", args_summary |-> S("args"), outcome |-> S("OK: ok")]>> }

\* a task list as the task-list updater stores it
StoreTasks == <<[task |-> S("t1"), status |-> S("pending")]>>

storeFrame == <<apiVars, busVars, running, epc, turnVars, toolVars, config, ctxOut, direct, gw, notify, webhook>>

\* get_or_create of a key that is not cached (lines 194-200)
StoreGet(k) ==
    /\ savePc = "idle"
    /\ k \notin DOMAIN sessions
    /\ sessions' = get_or_create(sessions, disk, k)
    /\ UNCHANGED <<disk, fileVars, storeFrame>>

\* the two add_message calls of a turn (loop.py lines 329-330)
StoreTurn(k, actions) ==
    /\ savePc = "idle"
    /\ k \in DOMAIN sessions
    /\ Len(sessions[k].messages) + 2 <= MaxRecords
    /\ sessions' = [sessions EXCEPT ![k].messages =
           add_message(add_message(@, "user", S("hello"), 0, EmptyMeta),
                       "assistant", S("pong"), 0, [tool_actions |-> actions])]
    /\ UNCHANGED <<disk, fileVars, storeFrame>>

\* session.metadata["task_list"] = validated (loop.py line 753)
StoreSetTasks(k) ==
    /\ savePc = "idle"
    /\ k \in DOMAIN sessions
    /\ "task_list" \notin DOMAIN sessions[k].metadata
    /\ sessions' = [sessions EXCEPT ![k].metadata = [task_list |-> StoreTasks]]
    /\ UNCHANGED <<disk, fileVars, storeFrame>>

\* save: open(path, "w") creates or truncates the file (line 242)
SaveOpen(k) ==
    /\ savePc = "idle"
    /\ k \in DOMAIN sessions
    /\ LET path == get_session_path(k)
       IN /\ savePrev' = IF path \in DOMAIN disk
                         THEN [exists |-> TRUE, lines |-> disk[path]]
                         ELSE [exists |-> FALSE, lines |-> <<>>]
          /\ disk' = (path :> <<>>) @@ disk
    /\ saveKey' = k
    /\ saveLeft' = FileLines(sessions[k])
    /\ saveTarget' = FileLines(sessions[k])
    /\ savePc' = "writing"
    /\ UNCHANGED <<sessions, storeFrame>>

\* save: one f.write reaches the file (lines 250, 254)
SaveWrite ==
    /\ savePc = "writing"
    /\ saveLeft # <<>>
    /\ disk' = [disk EXCEPT ![get_session_path(saveKey)] = Append(@, Head(saveLeft))]
    /\ saveLeft' = Tail(saveLeft)
    /\ UNCHANGED <<sessions, savePc, saveKey, savePrev, saveTarget, storeFrame>>

\* save: the with block ends and the session is put in the cache (line 256)
SaveClose ==
    /\ savePc = "writing"
    /\ saveLeft = <<>>
    /\ savePc' = "idle"
    /\ sessions' = (saveKey :> sessions[saveKey]) @@ sessions
    /\ saveKey' = <<>>
    /\ saveTarget' = <<>>
    /\ savePrev' = [exists |-> FALSE, lines |-> <<>>]
    /\ UNCHANGED <<disk, saveLeft, storeFrame>>

\* the process ends (crash, kill, power loss) and is started again: the cache
\* is gone, the files are what they were
Restart ==
    /\ sessions' = EmptyMeta
    /\ savePc' = "idle"
    /\ saveLeft' = <<>>
    /\ UNCHANGED <<disk, saveKey, savePrev, saveTarget, storeFrame>>

\* lines in a file that are not JSON text
BadLines(lines) == Cardinality({i \in DOMAIN lines : lines[i].text # "json"})

\* a blank line or a damaged line gets into a session file (an editor, a
\* torn write of another tool) at position pos
Tamper(path, pos, line) ==
    /\ savePc = "idle"
    /\ path \in DOMAIN disk
    /\ pos \in 0..Len(disk[path])
    /\ \A q \in DOMAIN disk : BadLines(disk[q]) < MaxBadLines
    /\ disk' = [disk EXCEPT ![path] =
                   SubSeq(@, 1, pos) \o <<line>> \o SubSeq(@, pos + 1, Len(@))]
    /\ saveKey' = <<>>
    /\ saveTarget' = <<>>
    /\ savePrev' = [exists |-> FALSE, lines |-> <<>>]
    /\ UNCHANGED <<sessions, savePc, saveLeft, storeFrame>>

StoreNext ==
    \/ \E k \in StoreKeys : StoreGet(k)
    \/ \E k \in StoreKeys, actions \in StoreActions : StoreTurn(k, actions)
    \/ \E k \in StoreKeys : StoreSetTasks(k)
    \/ \E k \in StoreKeys : SaveOpen(k)
    \/ SaveWrite
    \/ SaveClose
    \/ Restart
    \/ \E k \in StoreKeys, pos \in 0..(MaxRecords + 2), line \in {BlankLine, GarbageLine} :
          Tamper(get_session_path(k), pos, line)
StoreSpec == Init /\ [][StoreNext]_vars

\* --------------------------------------------- turns that update a task list
\* channels whose messages carry a nanonet session id; the last one names
\* no frappe channel
TaskSources ==
    { <<S("nanonet"), S("u1"), S("c1"), [session_id |-> <<"nanonet-dm", ":", "chan1">>]>>,
      <<System, S("subagent"), <<"nanonet", ":", "c1">>,
        [session_id |-> <<"nanonet-ctx", ":", "chan1", ":", "bot">>]>>,
      <<S("nanonet"), S("u1"), S("c1"), [session_id |-> <<"nanonet-dm", ":">>]>> }

\* a JSON object with a task and a status
Task(task, status) == Val(JObj([task |-> JStr(task), status |-> JStr(status)]))
Milk == <<"m", "i", "l", "k">>
LongTask == [i \in 1..81 |-> "x"]

\* response.content values of the secondary LLM call
TaskTexts ==
    << NoContent,
       <<Prose>>,
       <<LB, RB>>,
       <<LB, Task(Milk, S("completed")), RB>>,
       <<Prose, LB, Task(Milk, S("in_progress")), RB, Prose>>,
       <<LB, Task(Milk, S("pending")), RB, Prose, LB, Task(Milk, S("pending")), RB>>,
       <<LB, Prose, RB>>,
       <<LB, Val(JNum(S("5"))), RB>>,
       <<LB, Task(Milk, S("completed")), Val(JObj([task |-> JStr(Milk)])), RB>>,
       <<LB, Task(Milk, S("done")), RB>>,
       <<LB, Val(JObj([task |-> JNum(S("5")), status |-> JNull])), RB>>,
       <<LB, Task(LongTask, S("pending")), RB>>,
       <<LB>> \o [i \in 1..11 |-> Task(Milk, S("pending"))] \o <<RB>> >>

TaskInit == InitState /\ max_iterations = TaskMaxIterations /\ queue_cap = QueueCap /\ webhook = NoEmitter
TaskNext ==
    \/ \E src \in TaskSources : ChannelInbound(src)
    \/ EngineNext
    \/ TaskListRaise
    \/ \E i \in DOMAIN TaskTexts : TaskListRespond(TaskTexts[i])
TaskSpec == TaskInit /\ [][TaskNext]_vars

\* ------------------------------------------------ get_structured_context
\* One session that grows pair by pair, possibly with a user record that
\* has no assistant record after it (a file cut short by an interrupted
\* save), and calls of get_structured_context on it.
CtxKey == <<"cli", ":", "direct">>

\* minutes between two events
CtxGaps == {1, 40}

\* arguments of get_structured_context
CtxMinPairs == {1, 3}
CtxMaxPairs == {2, 20}
CtxRecency == {30}
CtxMaxTool == {0, 1}

\* the session of CtxKey as get_or_create returns it
CtxMessages == get_or_create(sessions, disk, CtxKey)[CtxKey].messages

\* the time of the last record
LastTime(msgs) == IF Len(msgs) = 0 THEN 0 ELSE msgs[Len(msgs)].timestamp

ctxFrame == <<apiVars, busVars, running, epc, turnVars, disk, fileVars, toolVars, config>>

\* a turn adds its pair (loop.py lines 329-330)
CtxTurn(gap, actions) ==
    /\ ~ ctxOut.called
    /\ Len(CtxMessages) + 2 <= CtxRecords
    /\ LET now == LastTime(CtxMessages) + gap
           n == ToString(Len(CtxMessages))
       IN sessions' = (CtxKey :> Session(
              add_message(add_message(CtxMessages, "user", <<"q", n>>, now, EmptyMeta),
                          "assistant", <<"a", n>>, now, [tool_actions |-> actions]),
              EmptyMeta)) @@ sessions
    /\ UNCHANGED <<ctxFrame, ctxOut, direct, gw, notify, webhook>>

\* a user record without its assistant record, once in the session
CtxStray(gap) ==
    /\ ~ ctxOut.called
    /\ Len(CtxMessages) + 3 <= CtxRecords
    /\ \A i \in DOMAIN CtxMessages :
          CtxMessages[i].role = "user" => i < Len(CtxMessages) /\ CtxMessages[i + 1].role = "assistant"
    /\ LET now == LastTime(CtxMessages) + gap
           n == ToString(Len(CtxMessages))
       IN sessions' = (CtxKey :> Session(
              add_message(CtxMessages, "user", <<"q", n>>, now, EmptyMeta),
              EmptyMeta)) @@ sessions
    /\ UNCHANGED <<ctxFrame, ctxOut, direct, gw, notify, webhook>>

\* session.get_structured_context(min_pairs, max_pairs, recency_minutes,
\* max_tool_entries), gap minutes after the last record
CtxCall(minp, maxp, recency, maxtool, gap) ==
    /\ ~ ctxOut.called
    /\ CtxKey \in DOMAIN sessions
    /\ LET now == LastTime(sessions[CtxKey].messages) + gap
           out == get_structured_context(sessions[CtxKey].messages, now, minp, maxp,
                                         recency, maxtool)
       IN ctxOut' = [called |-> TRUE, now |-> now, min_pairs |-> minp,
                     max_pairs |-> maxp, recency_minutes |-> recency,
                     max_tool_entries |-> maxtool,
                     recent_pairs |-> out.recent_pairs, tool_log |-> out.tool_log]
    /\ UNCHANGED <<ctxFrame, sessions, direct, gw, notify, webhook>>

ContextNext ==
    \/ \E gap \in CtxGaps, actions \in StoreActions : CtxTurn(gap, actions)
    \/ CtxStray(1)
    \/ \E minp \in CtxMinPairs, maxp \in CtxMaxPairs, recency \in CtxRecency,
          maxtool \in CtxMaxTool, gap \in CtxGaps :
          CtxCall(minp, maxp, recency, maxtool, gap)
ContextInit ==
    /\ InitState
    /\ max_iterations = ApiMaxIterations
    /\ queue_cap = QueueCap
    /\ ~ debug.log_tool_calls
    /\ webhook = NoEmitter
ContextSpec == ContextInit /\ [][ContextNext]_vars

\* ------------------------------------------- turns with long tool calls
\* One tool call per turn, with argument values and results whose lengths
\* lie around the limits of the summaries.
Chars(n) == [i \in 1..n |-> "x"]

SummaryTools == {"exec", "read_file", "web_search", "web_fetch", "message", "spawn"}
SummaryLengths == {1, 180, 181, 200, 201}

\* tool calls of an LLM response
SummaryCalls ==
    {[id |-> S("call"), name |-> name, arguments |-> <<<<ArgName(name), Chars(n)>>>>] :
        name \in SummaryTools, n \in SummaryLengths}
    \cup {[id |-> S("call"), name |-> "message",
           arguments |-> <<<<"channel", Chars(n)>>, <<"text", Chars(101)>>>>] :
              n \in SummaryLengths}
    \cup {[id |-> S("call"), name |-> "read_file", arguments |-> <<<<"path", None>>>>],
          [id |-> S("call"), name |-> "spawn", arguments |-> <<>>]}

SummaryResponses ==
    {[content |-> None, tool_calls |-> <<call>>, usage |-> Usage] : call \in SummaryCalls}

\* strings returned by tools.execute
SummaryResults ==
    { None, <<>>, S("ok"), Chars(296), Chars(297),
      <<"E", "r", "r", "o", "r">> \o Chars(288),
      <<"E", "r", "r", "o", "r">> \o Chars(289),
      <<"E", "R", "R", "O", "R", ":", " ", "n", "o">>,
      <<"o", "k", "\n">> \o Chars(400),
      <<" ", " ">> \o Chars(296) \o <<" ">> }

SummaryNext ==
    \/ ChannelInbound(<<Telegram, S("u1"), S("c1"), EmptyMeta>>)
    \/ Dequeue
    \/ \E response \in SummaryResponses : LLMRespond(response)
    \/ \E result \in SummaryResults : ToolExec(result)
    \/ DebugPublish
    \/ Finish
SummarySpec == TaskInit /\ [][SummaryNext]_vars

\* --------------------------------------- process_direct next to the run loop
\* process_direct is a coroutine of its own (the cron service and the CLI
\* await it); it runs _process_message on a message it builds itself. Its
\* LLM call is followed for responses without tool calls.
DirectMsg ==
    InboundMessage(0, S("cli"), S("user"), S("direct"), S("hello"), EmptyMeta)

directFrame == <<apiVars, busVars, running, epc, turnVars, fileVars, config, ctxOut, gw, notify, webhook>>

\* process_direct up to the await of provider.chat (lines 616-623, 185-239)
DirectStart ==
    /\ direct.pc = "idle"
    /\ direct.calls < MaxDirect
    /\ sessions' = get_or_create(sessions, disk, SessionKeyOf(DirectMsg))
    /\ toolCtx' = Routing(DirectMsg)
    /\ toolMeta' = DirectMsg.metadata
    /\ direct' = [pc |-> "llm", calls |-> direct.calls + 1]
    /\ UNCHANGED <<directFrame, disk>>

\* provider.chat returns content without tool calls; the pair is stored,
\* the session saved and the content returned (lines 306-353, 624-625)
DirectRespond(response) ==
    /\ direct.pc = "llm"
    /\ response.tool_calls = <<>>
    /\ LET key == SessionKeyOf(DirectMsg)
           msgs == add_message(
                       add_message(sessions[key].messages, "user", DirectMsg.content,
                                   nextMid, EmptyMeta),
                       "assistant", response.content, nextMid, [tool_actions |-> <<>>])
           session == Session(msgs, sessions[key].metadata)
       IN /\ sessions' = [sessions EXCEPT ![key] = session]
          /\ disk' = save(disk, key, session)
    /\ direct' = [direct EXCEPT !.pc = "idle"]
    /\ UNCHANGED <<directFrame, toolVars>>

\* provider.chat raises and the exception leaves process_direct
DirectRaise ==
    /\ direct.pc = "llm"
    /\ direct' = [direct EXCEPT !.pc = "idle"]
    /\ UNCHANGED <<directFrame, storeVars, toolVars>>

DirectNext ==
    \/ ChannelInbound(<<Telegram, S("u1"), S("c1"), EmptyMeta>>)
    \/ EngineNext
    \/ DirectStart
    \/ \E response \in Responses(1) : DirectRespond(response)
    \/ DirectRaise
DirectSpec == EngineInit /\ [][DirectNext]_vars

\* ------------------------------------------ the engine behind a longer queue
\* the inbound queue can hold several messages at once, so the order in
\* which they leave it matters
OrderInit ==
    InitState /\ max_iterations = ApiMaxIterations /\ queue_cap = OrderQueueCap /\ webhook = NoEmitter
OrderSpec == OrderInit /\ [][EngineSpecNext]_vars

\* ------------------------------------------------------- the gateway tools
\* the engine is constructed beside a skillgate configuration, and the two
\* execute methods are applied to every outcome of their HTTP request
Flags == {[kind |-> "absent"], JBool(TRUE), JBool(FALSE)}
PendingFlags == {[kind |-> "absent"], JBool(TRUE)}
RequestIds == {[kind |-> "absent"], JStr(S("R1"))}
ResultValues == {[kind |-> "absent"], JNull, JStr(<<>>), JStr(S("done"))}
ErrorValues == {[kind |-> "absent"], JStr(S("boom"))}
StatusValues ==
    {[kind |-> "absent"], JStr(S("Pending")), JStr(S("Completed")), JStr(S("Approved")),
     JStr(S("Denied")), JStr(S("Expired")), JStr(S("Queued"))}

\* the objects a gateway may answer execute_tool with
GatewayMessages ==
    {Object([pending_approval |-> p, success |-> s, request_id |-> r,
             result |-> res, error |-> e]) :
        p \in PendingFlags, s \in Flags, r \in RequestIds,
        res \in ResultValues, e \in ErrorValues}

\* the objects a gateway may answer check_result with
CheckMessages ==
    {Object([status |-> st, result |-> res]) : st \in StatusValues, res \in ResultValues}

\* what may stand under "message" besides an object
OtherMessages == {JStr(S("plain text")), JNull, JNum(S("5"))}

\* the bodies: the object under "message", the object as the body itself,
\* and a body that is no object
Bodies(objects) ==
    {JObj([message |-> m]) : m \in objects \cup OtherMessages}
        \cup objects \cup {JNum(S("5"))}

HttpOutcomes(objects) ==
    {HttpOk(data) : data \in Bodies(objects)}
        \cup {HttpStatus(S("500")), HttpStatus(S("404")), HttpTransport, HttpBadJson}

GatewayNames == {S("create_invoice")}
CheckKwargs ==
    {JObj(EmptyMeta), JObj([request_id |-> JStr(<<>>)]), JObj([request_id |-> JStr(S("R1"))])}

ToolDefs ==
    {<<>>,
     <<JObj([name |-> JStr(S("create_invoice"))])>>,
     <<JObj([name |-> JStr(S("create_invoice"))]), JObj([description |-> JStr(S("unnamed"))]),
       JObj([name |-> JStr(S("send_email"))])>>}
Credentials ==
    {<<S("https://erp"), S("key"), S("secret")>>, <<<<>>, S("key"), S("secret")>>,
     <<S("https://erp"), <<>>, S("secret")>>, <<S("https://erp"), S("key"), <<>>>>}
SkillgateConfigs ==
    {SkillgateConfig(enabled, c[1], c[2], c[3], tools) :
        enabled \in BOOLEAN, c \in Credentials, tools \in ToolDefs}

gatewayFrame == <<apiVars, busVars, engineVars, config, ctxOut, direct, notify, webhook>>

\* AgentLoop(bus, provider, workspace, ...) beside a configuration whose
\* skillgate section is skillgate (__init__, loop.py lines 38-84)
Construct(skillgate) ==
    /\ gw.constructed = "no"
    /\ LET registered == _register_default_tools(Path)
       IN gw' = [gw EXCEPT !.skillgate = skillgate,
                           !.constructed = IF registered.raised THEN "raised" ELSE "ok",
                           !.registry = IF registered.raised THEN {} ELSE registered.value]
    /\ UNCHANGED gatewayFrame

\* await GatewayTool(name).execute(**kwargs), the POST ending as outcome
GatewayCall(name, outcome) ==
    /\ gw.calls < MaxGatewayCalls
    /\ LET done == GatewayTool_execute(name, outcome)
       IN gw' = [gw EXCEPT !.tool = "gateway", !.name = name, !.kwargs = JObj(EmptyMeta),
                           !.outcome = outcome, !.result = done.result,
                           !.requests = done.requests, !.calls = @ + 1]
    /\ UNCHANGED gatewayFrame

\* await CheckApprovalResultTool().execute(**kwargs), the POST ending as outcome
CheckCall(kwargs, outcome) ==
    /\ gw.calls < MaxGatewayCalls
    /\ LET done == CheckApprovalResultTool_execute(kwargs, outcome)
       IN gw' = [gw EXCEPT !.tool = "check", !.name = CheckApprovalResult,
                           !.kwargs = kwargs, !.outcome = outcome, !.result = done.result,
                           !.requests = done.requests, !.calls = @ + 1]
    /\ UNCHANGED gatewayFrame

GatewayNext ==
    \/ \E skillgate \in SkillgateConfigs : Construct(skillgate)
    \/ \E name \in GatewayNames, outcome \in HttpOutcomes(GatewayMessages) :
          GatewayCall(name, outcome)
    \/ \E kwargs \in CheckKwargs, outcome \in HttpOutcomes(CheckMessages) :
          CheckCall(kwargs, outcome)
GatewaySpec == EngineInit /\ [][GatewayNext]_vars

\* ------------------------------------------------------------ POST /notify
Ping == S("ping")
TelegramOrigin == <<"telegram", ":", "c1">>

\* request bodies the handler refuses, and bodies it accepts: for a telegram
\* chat (once with a blank before the name), for the system channel, for the
\* API channel itself
NotifyBodies ==
    {NotifyBody(FALSE, <<>>, <<>>, <<>>),
     NotifyBody(TRUE, <<>>, Telegram, S("c1")),
     NotifyBody(TRUE, S(" "), Telegram, S("c1")),
     NotifyBody(TRUE, Ping, <<>>, S("c1")),
     NotifyBody(TRUE, Ping, Telegram, <<>>),
     NotifyBody(TRUE, Ping, Telegram, S("c1")),
     NotifyBody(TRUE, Ping, <<" ", "telegram">>, S("c1")),
     NotifyBody(TRUE, Ping, System, TelegramOrigin),
     NotifyBody(TRUE, Ping, System, S("c1")),
     NotifyBody(TRUE, Ping, ApiName, S("c1"))}

notifyFrame == <<apiVars, outbound, published, engineVars, config, ctxOut, direct, gw, webhook>>

\* _handle_notify up to the publish (lines 196-221)
NotifyAccept(body) ==
    /\ apiRunning
    /\ notify.pc = "idle"
    /\ nextMid + Reserved < MaxMsgs
    /\ notify' =
          IF ~ body.json
          THEN [notify EXCEPT !.body = body,
                              !.resp = Response(400, None, None, S("Invalid JSON body"))]
          ELSE IF ~ Truthy(Strip(body.message))
          THEN [notify EXCEPT !.body = body,
                              !.resp = Response(400, None, None, S("message field is required"))]
          ELSE IF ~ Truthy(Strip(body.channel)) \/ ~ Truthy(Strip(body.chat_id))
          THEN [notify EXCEPT !.body = body,
                              !.resp = Response(400, None, None,
                                                S("channel and chat_id fields are required"))]
          ELSE [notify EXCEPT !.body = body, !.resp = NoResponse, !.pc = "publish"]
    /\ UNCHANGED <<notifyFrame, inbound, nextMid>>

\* await self.bus.publish_inbound(msg) and the 200 (lines 215-229)
NotifyPublish ==
    /\ notify.pc = "publish"
    /\ CanPublish(inbound)
    /\ nextMid' = nextMid + 1
    /\ inbound' = Append(inbound,
           InboundMessage(nextMid + 1, Strip(notify.body.channel), System,
                          Strip(notify.body.chat_id), Strip(notify.body.message),
                          [source |-> S("notify")]))
    /\ notify' = [notify EXCEPT !.pc = "idle",
                                !.resp = Response(200, None, None, None),
                                !.sent = Append(@, [mid |-> nextMid + 1,
                                                    channel |-> Strip(notify.body.channel),
                                                    chat_id |-> Strip(notify.body.chat_id)])]
    /\ UNCHANGED notifyFrame

NotifyNext ==
    \/ \E body \in NotifyBodies : NotifyAccept(body)
    \/ NotifyPublish
    \/ ChannelInbound(<<Telegram, S("u1"), S("c1"), EmptyMeta>>)
    \/ EngineNext
NotifySpec == Init /\ [][NotifyNext]_vars

\* ------------------------------------------------------- token accounting
\* the engine when the provider reports its usage in full, in part or not
\* at all
TokenUsages ==
    {NoUsage, UsageDict(EmptyMeta), Usage, UsageDict([prompt_tokens |-> 3])}
TokenResponses(it) ==
    {[content |-> S("pong"), tool_calls |-> <<>>, usage |-> usage] : usage \in TokenUsages}
        \cup {[content |-> None, tool_calls |-> <<ToolCall(it, 1)>>, usage |-> usage] :
                 usage \in TokenUsages}
TokenSources ==
    {<<Telegram, S("u1"), S("c1"), EmptyMeta>>,
     <<System, S("subagent"), <<"telegram", ":", "c1">>, EmptyMeta>>}
TokenNext ==
    \/ \E src \in TokenSources : ChannelInbound(src)
    \/ Dequeue
    \/ \E response \in TokenResponses(iteration) : LLMRespond(response)
    \/ \E detail \in Details : LLMRaise(detail)
    \/ \E result \in Results : ToolExec(result)
    \/ DebugPublish
    \/ Finish
    \/ PublishReply
    \/ PublishError
    \/ Dispatch
TokenSpec == EngineInit /\ [][TokenNext]_vars

\* ------------------------------------------------- system-channel messages
\* announcements whose chat_id has one ":", two of them, or none
SystemSources ==
    {<<System, S("subagent"), <<"telegram", ":", "c1">>, EmptyMeta>>,
     <<System, S("subagent"), <<"web", ":", "room", ":", "7">>, EmptyMeta>>,
     <<System, S("subagent"), S("direct"), EmptyMeta>>}
SystemNext == (\E src \in SystemSources : ChannelInbound(src)) \/ EngineNext
SystemSpec == EngineInit /\ [][SystemNext]_vars

\* ------------------------------------------------------- webhook emitter
\* The emitter with and without a url, its POST tasks as the event loop
\* runs them, and the done callbacks the loop calls afterwards.
HookUrl == S("http://hook")
HookUrls == {<<>>, HookUrl}
EventTypes == {"user_message", "tool_call"}
PostOutcomes == {"ok", "failed"}
hookFrame == <<apiVars, busVars, engineVars, config, ctxOut, direct, gw, notify>>

\* a caller awaits emit
EmitCall(event_type) ==
    /\ Len(webhook.tasks) < MaxEvents
    /\ webhook' = emit(webhook, event_type)
    /\ UNCHANGED hookFrame

\* a POST that ends by raising into the turn that emitted the event
PostDone_raising_into_turn(i, outcome) ==
    /\ i \in DOMAIN webhook.tasks
    /\ webhook.tasks[i].post = "pending"
    /\ webhook' = [webhook EXCEPT !.tasks[i].post = outcome]
    /\ IF outcome = "failed" /\ epc \in {"llm", "tools", "finish"}
       THEN /\ epc' = "error"
            /\ UNCHANGED <<apiVars, busVars, running, turnVars, storeVars, toolVars,
                           config, ctxOut, direct, gw, notify>>
       ELSE UNCHANGED hookFrame
\* _post returns (lines 70-88): the response was 2xx ("ok"), or it was not
\* or client.post raised ("failed"); both are logged and the task is done
PostDone(i, outcome) ==
    /\ i \in DOMAIN webhook.tasks
    /\ webhook.tasks[i].post = "pending"
    /\ webhook' = [webhook EXCEPT !.tasks[i].post = outcome]
    /\ UNCHANGED hookFrame

\* the event loop calls the done callback of a finished task (line 66):
\* _background_tasks.discard(task)
DoneCallback(i) ==
    /\ i \in DOMAIN webhook.tasks
    /\ webhook.tasks[i].post # "pending"
    /\ ~ webhook.tasks[i].notified
    /\ webhook' = [webhook EXCEPT !.tasks[i].notified = TRUE,
                                  !._background_tasks = @ \ {i}]
    /\ UNCHANGED hookFrame

PostNext ==
    \/ \E i \in DOMAIN webhook.tasks, outcome \in PostOutcomes : PostDone(i, outcome)
    \/ \E i \in DOMAIN webhook.tasks : DoneCallback(i)
WebhookInit ==
    /\ InitState
    /\ max_iterations = TaskMaxIterations
    /\ queue_cap = QueueCap
    /\ webhook \in {WebhookEmitter(url) : url \in HookUrls}
WebhookNext == (\E event_type \in EventTypes : EmitCall(event_type)) \/ PostNext
WebhookSpec == WebhookInit /\ [][WebhookNext]_vars

\* the engine with an emitter: turns of a telegram user and of a subagent
\* announcement while the POST tasks of their events end well, badly or
\* not at all
HookedSources ==
    {<<Telegram, S("u1"), S("c1"), EmptyMeta>>,
     <<System, S("subagent"), <<"telegram", ":", "c1">>, EmptyMeta>>}
HookedResponses(it) ==
    {[content |-> S("pong"), tool_calls |-> <<>>, usage |-> Usage],
     [content |-> None, tool_calls |-> <<ToolCall(it, 1)>>, usage |-> Usage]}
HookedInbound(src) == nextMid < MaxHookedMsgs /\ ChannelInbound(src)
HookedInit ==
    /\ InitState
    /\ max_iterations = TaskMaxIterations
    /\ queue_cap = QueueCap
    /\ webhook = WebhookEmitter(HookUrl)
HookedNext ==
    \/ \E src \in HookedSources : HookedInbound(src)
    \/ Dequeue
    \/ \E response \in HookedResponses(iteration) : LLMRespond(response)
    \/ \E detail \in Details : LLMRaise(detail)
    \/ \E result \in Results : ToolExec(result)
    \/ DebugPublish
    \/ Finish
    \/ PublishReply
    \/ PublishError
    \/ Dispatch
    \/ PostNext
HookedSpec == HookedInit /\ [][HookedNext]_vars

\* ------------------------------------------------- a long conversation
\* One telegram chat whose turns follow one another until the session
\* holds more pairs than get_structured_context collects; each LLM call
\* answers with text, and at most one turn ends by the call raising.
LongSource == <<Telegram, S("u1"), S("c1"), EmptyMeta>>
LongKey == <<"telegram", ":", "c1">>
PublishedErrors ==
    {i \in DOMAIN published : StartsWith(published[i].content, ErrorPrefix)}

\* bus.publish_inbound by the telegram channel
LongInbound ==
    /\ CanPublish(inbound)
    /\ nextMid < MaxTurns
    /\ nextMid' = nextMid + 1
    /\ inbound' = Append(inbound,
           InboundMessage(nextMid + 1, LongSource[1], LongSource[2], LongSource[3],
                          S("hello"), LongSource[4]))
    /\ UNCHANGED <<apiVars, outbound, published, engineVars, config, ctxOut, direct, gw,
                   notify, webhook>>
LongInit ==
    /\ InitState
    /\ max_iterations = TaskMaxIterations
    /\ queue_cap = QueueCap
    /\ ~ debug.log_tool_calls
    /\ webhook = NoEmitter
LongNext ==
    \/ LongInbound
    \/ Dequeue
    \/ LLMRespond([content |-> S("pong"), tool_calls |-> <<>>, usage |-> Usage])
    \/ (PublishedErrors = {} /\ \E detail \in Details : LLMRaise(detail))
    \/ Finish
    \/ PublishReply
    \/ PublishError
    \/ Dispatch
LongSpec == LongInit /\ [][LongNext]_vars

\* ------------------------------------------------------------------ claims
IsFinal(o) == MetaGet(o.metadata, "is_final", FALSE)

\* the step hands the head of the outbound queue to ApiChannel.send
SendsToApi == Len(outbound') < Len(outbound) /\ Head(outbound).channel = ApiName

\* C1: ApiChannel.send of an outbound whose is_final is false or absent leaves
\* the pending map unchanged and resolves no completion slot, whatever its chat_id
C1_NonFinalSendLeavesPending ==
    [][ (SendsToApi /\ ~ IsFinal(Head(outbound)))
            => UNCHANGED <<pending, fut, futResult>> ]_vars

\* a non-final outbound addressed to a request that is pending has been sent
C1_Witness ==
    /\ outbound = <<>>
    /\ \E i \in DOMAIN published :
          /\ ~ IsFinal(published[i])
          /\ published[i].channel = ApiName
          /\ published[i].chat_id \in pending
          /\ fut[published[i].chat_id] = "pending"

\* C2: send of a final outbound O resolves only the slot under pending[O.chat_id]
\* (when present and unresolved) with O.content and removes that entry; every
\* other entry and slot is left alone, and a resolved slot is never resolved again
C2_FinalSendResolvesOnlyItsSlot ==
    [][ /\ (SendsToApi /\ IsFinal(Head(outbound))) =>
              /\ pending' = pending \ {Head(outbound).chat_id}
              /\ \A r \in ReqIds :
                    IF r = Head(outbound).chat_id /\ r \in pending /\ fut[r] = "pending"
                    THEN fut'[r] = "done" /\ futResult'[r] = Head(outbound).content
                    ELSE fut'[r] = fut[r] /\ futResult'[r] = futResult[r]
        /\ \A r \in ReqIds :
              fut[r] = "done" => fut'[r] = "done" /\ futResult'[r] = futResult[r]
      ]_vars

\* one request's slot holds its result while another request is still pending
C2_Witness ==
    \E r1, r2 \in ReqIds :
        /\ r1 # r2
        /\ fut[r1] = "done" /\ futResult[r1] # None /\ r1 \notin pending
        /\ fut[r2] = "pending" /\ r2 \in pending

\* C3: a 200 response to POST /chat carries the content of the is_final outbound
\* whose chat_id is the request's request_id, and the supplied session_id
\* ("api:default" when none was supplied); no earlier non-final outbound with
\* that chat_id becomes the response
C3_ChatResponseIsFinalContent ==
    \A r \in ReqIds : hresp[r].status = 200 =>
        /\ Truthy(hreq[r].message)
        /\ \E i \in DOMAIN published :
              /\ IsFinal(published[i])
              /\ published[i].channel = ApiName
              /\ published[i].chat_id = r
              /\ hresp[r].response = published[i].content
        /\ \A i \in DOMAIN published :
              (published[i].chat_id = r /\ ~ IsFinal(published[i]))
                  => hresp[r].response # published[i].content
        /\ hresp[r].session_id = IF hreq[r].session_id = None
                                 THEN DefaultSessionId ELSE hreq[r].session_id

\* a request got its 200 after a debug message for it had been published first
C3_Witness ==
    \E r \in ReqIds :
        /\ hresp[r].status = 200
        /\ \E i, j \in DOMAIN published :
              /\ i < j
              /\ published[i].chat_id = r /\ ~ IsFinal(published[i])
              /\ published[j].chat_id = r /\ IsFinal(published[j])

\* C4: every accepted POST /chat request eventually returns a response,
\* whatever the turn engine does and however full the inbound queue is
C4_ChatAlwaysReturns ==
    \A r \in ReqIds : (hpc[r] = "publish") ~> (hpc[r] = "done")

\* C5: ApiChannel.stop cancels every unresolved slot and empties the pending
\* map without touching a resolved slot, and a handler that was waiting on a
\* slot cancelled this way returns 499
C5_StopCancelsPending ==
    [][ /\ (apiRunning /\ ~ apiRunning') =>
              /\ pending' = {}
              /\ \A r \in ReqIds :
                    /\ fut[r] = "pending" => fut'[r] = "cancelled"
                    /\ fut[r] = "done" => fut'[r] = "done" /\ futResult'[r] = futResult[r]
        /\ \A r \in ReqIds :
              (hpc[r] \in {"wait", "timerwake"} /\ fut[r] = "cancelled" /\ hpc'[r] = "done")
                  => hresp'[r].status = 499
      ]_vars

\* stop has run while a handler was waiting, and that handler has returned 499
C5_Witness ==
    /\ ~ apiRunning
    /\ pending = {}
    /\ \E r \in ReqIds :
          /\ hpc[r] = "done" /\ hresp[r].status = 499 /\ fut[r] = "cancelled"
          /\ \E r2 \in ReqIds : fut[r2] = "done"

\* ------------------------------------------------------ claims on the engine
\* inbound messages the engine has taken from the queue (the queue is FIFO and
\* mid numbers the messages in the order the bus accepted them)
Dequeued == 1..(nextMid - Len(inbound))

\* inbound messages whose turn has ended
Completed == {m \in Dequeued : epc = "idle" \/ m # cur.mid}

\* positions in the publish history of the outbounds of the turn for message m
OutsOf(m) == {i \in DOMAIN published : published[i].src.mid = m}
FinalsOf(m) == {i \in OutsOf(m) : IsFinal(published[i])}

\* C6: for every inbound message the engine dequeues exactly one outbound with
\* is_final = true is published, when its turn ends, addressed to the channel
\* and chat_id used for routing the message; every other outbound of the turn
\* carries no is_final flag
C6_OneFinalPerTurn ==
    \A m \in 1..nextMid :
        /\ m \in Completed => Cardinality(FinalsOf(m)) = 1
        /\ m \notin Completed => FinalsOf(m) = {}
        /\ \A i \in FinalsOf(m) :
              <<published[i].channel, published[i].chat_id>> = Routing(published[i].src)
        /\ \A i \in OutsOf(m) \ FinalsOf(m) :
              "is_final" \notin DOMAIN published[i].metadata

\* C7: when the LLM call raises in a turn for a message on a non-system channel
\* the engine publishes one outbound to the message's channel and chat_id whose
\* content is "Sorry, I encountered an error: " followed by the error detail,
\* with is_final = true, and is then ready for the next inbound message
C7_LLMErrorReply ==
    [][ /\ (epc = "llm" /\ epc' = "error") =>
              err' \in Details /\ cur' = cur /\ published' = published
        /\ (epc = "error" /\ ~ IsSystem(cur) /\ epc' # "error") =>
              /\ published' = Append(published,
                     OutboundMessage(cur, cur.channel, cur.chat_id,
                                     ErrorPrefix \o err, [is_final |-> TRUE]))
              /\ epc' = "idle"
              /\ running' = running
              /\ inbound' = inbound
      ]_vars

\* the error reply for a telegram message was published and the engine is
\* working on a later message
C7_Witness ==
    \E i \in DOMAIN published :
        /\ published[i].src.channel = Telegram
        /\ published[i].channel = Telegram
        /\ published[i].content = ErrorPrefix \o S("boom")
        /\ IsFinal(published[i])
        /\ epc = "llm"
        /\ cur.mid > published[i].src.mid

\* C8: a turn makes at most max_iterations LLM calls and, when every LLM call
\* and tool execution returns, ends
C8_TurnTerminates ==
    /\ [](llm_calls <= max_iterations)
    /\ (epc # "idle") ~> (epc = "idle")

\* the LLM answered every call of a turn with tool calls and the loop is over
C8_Witness ==
    /\ epc = "finish"
    /\ llm_calls = max_iterations
    /\ max_iterations > 1
    /\ final_content = None

\* an assistant record that carries tool calls
HasCalls(rec) == rec.role = "assistant" /\ "tool_calls" \in DOMAIN rec

\* the step that publishes the reply of a turn whose loop ended without a
\* terminal answer: each of the max_iterations LLM responses carried tool calls
ExhaustedReply ==
    /\ epc = "reply" /\ epc' = "idle"
    /\ Cardinality({i \in DOMAIN messages : HasCalls(messages[i])}) = max_iterations

\* C9 as stated: whenever a turn (regular or system-channel) produced no
\* terminal content within max_iterations iterations, the final outbound and
\* the stored assistant record both hold the regular placeholder
C9_PlaceholderEverywhere ==
    [][ ExhaustedReply =>
            /\ published'[Len(published')].content = Placeholder
            /\ sessions[skey].messages[Len(sessions[skey].messages)].content = Placeholder
      ]_vars

\* C9 amended: after exhaustion of a regular turn the stored assistant record
\* holds the placeholder and the final outbound holds the placeholder, followed
\* by the token usage footer when show_token_usage is on; after exhaustion of a
\* system-channel turn both hold "Background task completed."
C9_PlaceholderPerTurnKind ==
    [][ ExhaustedReply =>
            /\ IsFinal(published'[Len(published')])
            /\ published'[Len(published')].src = cur
            /\ sessions[skey].messages[Len(sessions[skey].messages)].role = "assistant"
            /\ IF IsSystem(cur)
               THEN /\ published'[Len(published')].content = SystemPlaceholder
                    /\ sessions[skey].messages[Len(sessions[skey].messages)].content = SystemPlaceholder
               ELSE /\ published'[Len(published')].content =
                          (IF debug.show_token_usage
                           THEN Placeholder \o Footer ELSE Placeholder)
                    /\ sessions[skey].messages[Len(sessions[skey].messages)].content = Placeholder
      ]_vars

\* exhausted turns of both kinds have been answered, one with a footer
C9_Witness ==
    \E i, j \in DOMAIN published :
        /\ published[i].content = SystemPlaceholder
        /\ Len(published[j].content) > 2
        /\ SubSeq(published[j].content, 1, 2) = Placeholder \o S("\n\n---\n")

\* number of tool records that directly follow position i
RunLen(msgs, i) ==
    CHOOSE n \in 0..(Len(msgs) - i) :
        /\ \A k \in 1..n : msgs[i + k].role = "tool"
        /\ i + n + 1 > Len(msgs) \/ msgs[i + n + 1].role # "tool"

\* every assistant record with N tool calls is directly followed by exactly N
\* tool records answering its calls in order, only the last one may still miss
\* its last `missing` answers; and every tool record belongs to such a run
Paired(msgs, missing) ==
    /\ \A i \in DOMAIN msgs : HasCalls(msgs[i]) =>
          LET calls == msgs[i].tool_calls
              isLast == \A j \in (i + 1)..Len(msgs) : ~ HasCalls(msgs[j])
              n == IF isLast THEN Len(calls) - missing ELSE Len(calls)
          IN /\ RunLen(msgs, i) = n
             /\ \A k \in 1..n : msgs[i + k].tool_call_id = calls[k].id
    /\ \A j \in DOMAIN msgs : msgs[j].role = "tool" =>
          j > 1 /\ (msgs[j - 1].role = "tool" \/ HasCalls(msgs[j - 1]))

\* C10: the tool calls of one LLM response are executed one at a time in the
\* order received, and in the LLM message array of the turn and in every
\* session each assistant record with N tool_calls is directly followed by N
\* tool records with the ids of its calls, in order (the response whose calls
\* are still being executed has the records of the calls executed so far)
C10_ToolRecordsFollowCalls ==
    /\ Paired(messages, Len(todo))
    /\ \A k \in DOMAIN sessions : Paired(sessions[k].messages, 0)
    /\ \A k \in DOMAIN sessions : Paired(load(disk, k).messages, 0)
    /\ todo # <<>> => epc \in {"tools", "debug"}
    /\ (\E i \in DOMAIN messages : HasCalls(messages[i])) =>
          LET last == CHOOSE i \in DOMAIN messages :
                         /\ HasCalls(messages[i])
                         /\ \A j \in (i + 1)..Len(messages) : ~ HasCalls(messages[j])
              calls == messages[last].tool_calls
          IN executed \o [k \in DOMAIN todo |-> todo[k].id]
                 = [k \in DOMAIN calls |-> calls[k].id]

\* two LLM responses with two tool calls each have been executed in full
C10_Witness ==
    /\ epc = "finish"
    /\ Cardinality({i \in DOMAIN messages :
                       HasCalls(messages[i]) /\ Len(messages[i].tool_calls) = 2}) = 2
    /\ Len(executed) = 2

\* the tool records of the turn's LLM message array: one per tool call the
\* turn has executed, in execution order
ToolRecords == SelectSeq(messages, LAMBDA m : m.role = "tool")

\* C11: the step that ends a turn with its final content appends exactly two
\* records to the turn's session, a user record and then an assistant record
\* holding the final content and one tool_actions entry per executed tool call
\* in execution order, and saves that session; no step adds, removes or
\* changes any other session record
C11_TurnAppendsOnePair ==
    [][ /\ (epc = "finish" /\ epc' = "reply") =>
              LET old == sessions[skey].messages
                  new == sessions'[skey].messages
                  n == Len(old)
              IN /\ Len(new) = n + 2
                 /\ SubSeq(new, 1, n) = old
                 /\ new[n + 1].role = "user"
                 /\ ~ IsSystem(cur) => new[n + 1].content = cur.content
                 /\ new[n + 2].role = "assistant"
                 /\ new[n + 2].content = final_content'
                 /\ Len(new[n + 2].tool_actions) = Len(ToolRecords)
                 /\ \A i \in DOMAIN ToolRecords :
                       new[n + 2].tool_actions[i].tool = ToolRecords[i].name
                 /\ DOMAIN sessions' = DOMAIN sessions
                 /\ \A k \in DOMAIN sessions \ {skey} : sessions'[k] = sessions[k]
                 /\ load(disk', skey) = sessions'[skey]
        /\ epc # "finish" =>
              \A k \in DOMAIN sessions :
                  k \in DOMAIN sessions' /\ sessions'[k].messages = sessions[k].messages
      ]_vars

\* a second turn on a session has stored its pair, with two tool actions
C11_Witness ==
    /\ epc = "reply"
    /\ Len(sessions[skey].messages) = 4
    /\ Len(sessions[skey].messages[4].tool_actions) = 2
    /\ load(disk, skey) = sessions[skey]

C13_SaveLoadRoundTrip ==
    [][SaveClose =>
          /\ disk = save(disk, saveKey, sessions[saveKey])
          /\ load(disk', saveKey).messages = sessions[saveKey].messages
          /\ load(disk', saveKey).metadata = sessions[saveKey].metadata]_vars

\* a restarted process (empty cache) finds a file from which the pair with
\* its tool actions and the task list are loaded
C13_Witness ==
    /\ savePc = "idle"
    /\ sessions = EmptyMeta
    /\ \E k \in StoreKeys :
          /\ load(disk, k) # NoSession
          /\ Len(load(disk, k).messages) = 2
          /\ load(disk, k).messages[2].tool_actions # <<>>
          /\ MetaGet(load(disk, k).metadata, "task_list", <<>>) = StoreTasks

\* the message records of the lines that parse, in file order
ParsableMessages(lines) ==
    LET kept == SelectSeq(lines, LAMBDA l : l.text = "json" /\ ~IsMetadata(l.data))
    IN [i \in DOMAIN kept |-> kept[i].data]

\* C14: loading a session file that contains blank lines or lines that fail
\* to parse skips those lines and returns a session holding every other
\* (parsable) message record of the file, in order.
C14_LoadSkipsBadLines ==
    [][\A k \in StoreKeys :
          (StoreGet(k) /\ get_session_path(k) \in DOMAIN disk) =>
              sessions'[k].messages = ParsableMessages(disk[get_session_path(k)])]_vars

\* C15: from the moment a save has started, whether it is still running,
\* has been cut short by the end of the process, or has completed, the
\* session file holds either the complete previous contents (or does not
\* exist, if it did not before) or the complete new contents.
C15_SaveIsAtomic ==
    saveKey # <<>> =>
        LET path == get_session_path(saveKey)
        IN \/ path \in DOMAIN disk /\ disk[path] = saveTarget
           \/ savePrev.exists /\ path \in DOMAIN disk /\ disk[path] = savePrev.lines
           \/ ~savePrev.exists /\ path \notin DOMAIN disk

\* the task list of a session, [] when it has none
TaskListOf(session) == MetaGet(session.metadata, "task_list", <<>>)

\* C16: whatever text the secondary LLM call returned, the task list of
\* every session, in memory and as saved, has at most 10 entries, and every
\* entry has a task of at most 80 characters and a status among pending,
\* in_progress and completed.
C16_TaskListBounded ==
    \A k \in DOMAIN sessions :
        \A l \in {TaskListOf(sessions[k]), TaskListOf(load(disk, k))} :
            /\ Len(l) <= 10
            /\ \A i \in DOMAIN l :
                  /\ Len(l[i].task) <= 80
                  /\ l[i].status \in {S("pending"), S("in_progress"), S("completed")}

\* one session got the first 10 of 11 returned tasks, another one a task
\* cut to 80 characters
C16_Witness ==
    /\ epc = "reply"
    /\ \E k \in DOMAIN sessions : Len(TaskListOf(sessions[k])) = 10
    /\ \E k \in DOMAIN sessions :
          /\ Len(TaskListOf(sessions[k])) = 1
          /\ Len(TaskListOf(sessions[k])[1].task) = 80

\* a step of the task-list update failed on this response content: no
\* content, no array, an array that does not parse, or an element that
\* fails validation
FailsUpdate(content) ==
    \/ IsNoContent(content)
    \/ re_search(content) = <<>>
    \/ ~ json_parses(re_search(content))
    \/ \E i \in DOMAIN json_loads(re_search(content)) :
          i <= 10 /\ ~ IsTask(json_loads(re_search(content))[i])

\* C17: if a step of the task-list update fails (the call raises, no array
\* is found, the array does not parse, an element fails validation), the
\* task list of the session is what it was before the update and the turn
\* goes on to its reply with the same content.
C17_FailureLeavesTaskList ==
    [][ /\ TaskListRaise =>
              /\ TaskListOf(sessions'[skey]) = TaskListOf(sessions[skey])
              /\ epc' = "reply" /\ final_content' = final_content
        /\ \A i \in DOMAIN TaskTexts :
              (TaskListRespond(TaskTexts[i]) /\ FailsUpdate(TaskTexts[i])) =>
                  /\ TaskListOf(sessions'[skey]) = TaskListOf(sessions[skey])
                  /\ epc' = "reply" /\ final_content' = final_content ]_vars

\* the records of the session get_structured_context was called on
CtxSession == sessions[CtxKey].messages

\* assistant records that have a user record right before them
PairEnds(msgs) ==
    {i \in DOMAIN msgs : i > 1 /\ msgs[i].role = "assistant" /\ msgs[i - 1].role = "user"}

\* number of pairs in recent_pairs
SelectedCount == Len(ctxOut.recent_pairs) \div 2

\* C18 as stated: get_structured_context selects at least
\* min(min_pairs, P) pairs, P being the number of user+assistant pairs of
\* the session, and never more than max_pairs.
C18_AtLeastMinPairs ==
    ctxOut.called =>
        /\ SelectedCount >= Min(ctxOut.min_pairs, Cardinality(PairEnds(CtxSession)))
        /\ SelectedCount <= ctxOut.max_pairs

\* C18 amended: get_structured_context selects at least
\* min(min_pairs, max_pairs, P) pairs and never more than max_pairs.
C18_AtLeastMinUpToCap ==
    ctxOut.called =>
        /\ SelectedCount >=
              Min(Min(ctxOut.min_pairs, ctxOut.max_pairs), Cardinality(PairEnds(CtxSession)))
        /\ SelectedCount <= ctxOut.max_pairs

\* a call with min_pairs 3 and max_pairs 2 on a session of four pairs
\* selected two pairs
C18_Witness ==
    /\ ctxOut.called
    /\ ctxOut.min_pairs = 3
    /\ ctxOut.max_pairs = 2
    /\ Cardinality(PairEnds(CtxSession)) = 4
    /\ SelectedCount = 2

\* the assistant record of the j-th pair counted from the newest
NthNewest(msgs, j) ==
    CHOOSE i \in PairEnds(msgs) : Cardinality({x \in PairEnds(msgs) : x > i}) = j - 1

\* the j-th pair from the newest has a timestamp within the last
\* recency_minutes before the call
InWindow(j) ==
    CtxSession[NthNewest(CtxSession, j)].timestamp >= ctxOut.now - ctxOut.recency_minutes

\* the j-th pair from the newest belongs to recent_pairs
Included(j) ==
    /\ j <= ctxOut.max_pairs
    /\ j <= ctxOut.min_pairs \/ \A i \in (ctxOut.min_pairs + 1)..j : InWindow(i)

\* the included pairs, oldest first, as flat role and content records
ExpectedRecent ==
    LET K == Cardinality({j \in 1..Cardinality(PairEnds(CtxSession)) : Included(j)})
    IN [n \in 1..(2 * K) |->
           LET e == NthNewest(CtxSession, K + 1 - ((n + 1) \div 2))
           IN IF n % 2 = 1
              THEN [role |-> "user", content |-> CtxSession[e - 1].content]
              ELSE [role |-> "assistant", content |-> CtxSession[e].content]]

\* C19: recent_pairs is the most recent run of pairs in chronological
\* order: the newest min_pairs pairs, and beyond them a pair exactly when
\* it and every newer pair beyond min_pairs has a timestamp within the last
\* recency_minutes, up to max_pairs pairs.
C19_RecentRun ==
    ctxOut.called => ctxOut.recent_pairs = ExpectedRecent

\* five pairs of which the last two are within the window, min_pairs 3,
\* recency_minutes 30: recent_pairs is P3, P4, P5
C19_Witness ==
    /\ ctxOut.called
    /\ ctxOut.min_pairs = 3 /\ ctxOut.max_pairs = 20 /\ ctxOut.recency_minutes = 30
    /\ Len(CtxSession) = 10
    /\ Cardinality(PairEnds(CtxSession)) = 5
    /\ InWindow(1) /\ InWindow(2) /\ ~ InWindow(3)
    /\ Len(ctxOut.recent_pairs) = 6
    /\ ctxOut.recent_pairs[1].content = CtxSession[5].content
    /\ ctxOut.recent_pairs[6].content = CtxSession[10].content

\* assistant records selected for recent_pairs
SelectedEnds == {NthNewest(CtxSession, j) : j \in 1..SelectedCount}

\* the tool-action summaries of the assistant records that are not in
\* recent_pairs, oldest first
OlderEntries ==
    Flatten([i \in DOMAIN CtxSession |->
        IF CtxSession[i].role = "assistant" /\ i \notin SelectedEnds
        THEN [a \in DOMAIN CtxSession[i].tool_actions |->
                 [timestamp |-> CtxSession[i].timestamp,
                  tool |-> CtxSession[i].tool_actions[a].tool,
                  args_summary |-> CtxSession[i].tool_actions[a].args_summary,
                  outcome |-> CtxSession[i].tool_actions[a].outcome]]
        ELSE <<>>])

\* C20: tool_log holds only tool-action summaries of assistant records that
\* are not in recent_pairs, in chronological order, and at most
\* max_tool_entries of them, the most recent ones, for every
\* max_tool_entries >= 0.
C20_ToolLogBounded ==
    ctxOut.called =>
        /\ Len(ctxOut.tool_log) <= ctxOut.max_tool_entries
        /\ ctxOut.tool_log =
              SubSeq(OlderEntries,
                     Len(OlderEntries) - Min(ctxOut.max_tool_entries, Len(OlderEntries)) + 1,
                     Len(OlderEntries))

\* C21: every tool action, as collected during the turn and as recorded on
\* an assistant record of a session, has an args_summary of at most 200
\* characters and an outcome of at most 300 characters.
C21_SummariesBounded ==
    /\ \A i \in DOMAIN tool_actions :
          Len(tool_actions[i].args_summary) <= 200 /\ Len(tool_actions[i].outcome) <= 300
    /\ \A k \in DOMAIN sessions : \A n \in DOMAIN sessions[k].messages :
          \A i \in DOMAIN MetaGet(sessions[k].messages[n], "tool_actions", <<>>) :
             /\ Len(sessions[k].messages[n].tool_actions[i].args_summary) <= 200
             /\ Len(sessions[k].messages[n].tool_actions[i].outcome) <= 300

\* a turn started by the run loop is between its start and its return
RunTurnActive == epc \in {"llm", "tools", "debug", "finish", "tasklist"}

\* C22: no two turns run concurrently: while a turn started by the run loop
\* is between its start and its end, no turn started by process_direct is
\* between its start and its end.
C22_OneTurnAtATime == ~ (RunTurnActive /\ direct.pc # "idle")

\* C23: when a tool executes in a turn, the message, spawn and cron tools
\* hold the routing channel and chat_id of that turn, and the tools that
\* accept set_metadata hold the metadata of the message being processed.
C23_ToolsHoldTurnContext ==
    [][(\E result \in Results : ToolExec(result)) =>
          /\ toolCtx = route
          /\ toolMeta = cur.metadata]_vars

\* C24: messages of one channel are processed one after the other in the
\* order the bus accepted them: while a turn runs no earlier message of its
\* channel is still waiting, the waiting messages of a channel are in
\* inbound order, and the final outbounds of the turns of one channel are
\* published in inbound order.
C24_ChannelOrder ==
    /\ epc # "idle" =>
          \A i \in DOMAIN inbound :
              inbound[i].channel = cur.channel => inbound[i].mid > cur.mid
    /\ \A i, j \in DOMAIN inbound :
          (i < j /\ inbound[i].channel = inbound[j].channel) =>
              inbound[i].mid < inbound[j].mid
    /\ \A i, j \in DOMAIN published :
          (/\ i < j /\ IsFinal(published[i]) /\ IsFinal(published[j])
           /\ published[i].src.channel = published[j].src.channel) =>
              published[i].src.mid < published[j].src.mid

\* both turns of two messages of one channel have published their final
\* outbound, the earlier message's first
C24_Witness ==
    /\ epc = "idle"
    /\ inbound = <<>>
    /\ \E i, j \in DOMAIN published :
          /\ i < j /\ IsFinal(published[i]) /\ IsFinal(published[j])
          /\ published[i].src.channel = Telegram /\ published[j].src.channel = Telegram
          /\ published[i].src.mid = 1 /\ published[j].src.mid = 2

\* sub occurs in s as a run of consecutive elements
Contains(s, sub) ==
    \E i \in 0..(Len(s) - Len(sub)) : SubSeq(s, i + 1, i + Len(sub)) = sub

\* the last call was GatewayTool.execute and its POST brought a body that is
\* an object
GatewayAnswered ==
    gw.tool = "gateway" /\ gw.outcome.http = "ok" /\ gw.outcome.data.kind = "obj"

PollInstruction ==
    S("Use the check_approval_result tool with this request_id to poll for the outcome.")

\* the return value the three response shapes give for the object shape
ShapeMapping(shape, returned) ==
    LET result == dict_get(shape, "result", JNull)
        error == dict_get(shape, "error", JNull)
    IN IF bool(dict_get(shape, "pending_approval", JNull))
       THEN /\ Contains(returned, <<"request_id: ">> \o str(dict_get(shape, "request_id", JStr(<<>>))))
            /\ Contains(returned, PollInstruction)
       ELSE IF bool(dict_get(shape, "success", JNull))
            THEN returned = str(dict_get(shape, "result", JStr(<<>>)))
       ELSE IF bool(result) THEN returned = str(result)
       ELSE IF bool(error) THEN returned = str(error)
       ELSE returned = json_dumps_object(shape)

MessageMember == dict_get(gw.outcome.data, "message", JObj(EmptyMeta))

CheckAnswered ==
    /\ gw.tool = "check" /\ gw.requests = 1
    /\ gw.outcome.http = "ok" /\ gw.outcome.data.kind = "obj"
    /\ MessageMember.kind = "obj"

PolledStatus == dict_get(MessageMember, "status", JStr(<<>>))
PolledResult == dict_get(MessageMember, "result", JNull)
IsStatus(text) == IsStr(PolledStatus, S(text))

\* what the poll says of Pending, Denied and Expired
C26_OtherStatuses ==
    /\ IsStatus("Pending") =>
          Contains(gw.result.value, S(" is still pending approval. Try again shortly."))
    /\ IsStatus("Denied") => Contains(gw.result.value, <<" was ", "denied">>)
    /\ IsStatus("Expired") => Contains(gw.result.value, <<" was ", "expired">>)

HttpFailed == gw.outcome.http \in {"status", "transport"}
BodyMalformed ==
    \/ gw.outcome.http = "badjson"
    \/ gw.outcome.http = "ok" /\ gw.outcome.data.kind # "obj"
    \/ gw.outcome.http = "ok" /\ gw.outcome.data.kind = "obj"
          /\ MessageMember.kind \notin {"obj", "str"}

\* C27: GatewayTool.execute and CheckApprovalResultTool.execute never raise:
\* a non-2xx status, a transport failure or a malformed response body gives
\* a returned string starting with "Error", and each call makes at most one
\* HTTP request
C27_ExecuteNeverRaises ==
    gw.tool # "" =>
        /\ ~ gw.result.raised
        /\ gw.requests <= 1
        /\ (gw.requests = 1 /\ (HttpFailed \/ BodyMalformed)) =>
              StartsWith(gw.result.value, ErrorWord)

\* a gateway tool met a transport failure and returned an error string
C27_Witness ==
    /\ gw.tool = "gateway"
    /\ gw.outcome.http = "transport"
    /\ gw.requests = 1
    /\ ~ gw.result.raised
    /\ StartsWith(gw.result.value, ErrorWord)

\* the skillgate configuration is enabled and has its credentials
GatewayEnabled ==
    /\ gw.skillgate.enabled
    /\ gw.skillgate.url # <<>> /\ gw.skillgate.api_key # <<>> /\ gw.skillgate.api_secret # <<>>

\* the names of the tool definitions of the configuration that have a name
ConfiguredNames ==
    {dict_get(gw.skillgate.tools[i], "name", JNull).s :
        i \in {j \in DOMAIN gw.skillgate.tools :
                  bool(dict_get(gw.skillgate.tools[j], "name", JNull))}}

\* C28: once the engine has registered its tools, an enabled gateway
\* configuration with credentials has one tool per named tool definition and
\* check_approval_result in the registry; a disabled one, or one without
\* credentials, has none of them there, and construction succeeds all the same
C28_GatewayToolsRegistered ==
    gw.constructed # "no" =>
        /\ gw.constructed = "ok"
        /\ gw.registry \ DefaultTools =
              IF GatewayEnabled THEN ConfiguredNames \cup {CheckApprovalResult} ELSE {}

\* the step in which _handle_notify publishes and answers a valid request
NotifyAnswers == notify.pc = "publish" /\ notify'.pc = "idle"

\* that step puts one message with the channel and chat_id of the request
\* on the inbound queue, answers 200 while the message waits there, and
\* leaves the pending map alone
NotifyPublishesOne ==
    /\ Len(inbound') = Len(inbound) + 1
    /\ SubSeq(inbound', 1, Len(inbound)) = inbound
    /\ inbound'[Len(inbound')].channel = Strip(notify.body.channel)
    /\ inbound'[Len(inbound')].chat_id = Strip(notify.body.chat_id)
    /\ notify'.resp.status = 200
    /\ cur'.mid # inbound'[Len(inbound')].mid
    /\ UNCHANGED <<pending, fut>>

\* the turn of a message published by /notify works on the session of its
\* channel and chat_id, and its final reply goes to that channel and chat_id
NotifyTurnRouted(n) ==
    /\ (epc # "idle" /\ cur.mid = n.mid) => skey = n.channel \o Colon \o n.chat_id
    /\ \A j \in DOMAIN published :
          (published[j].src.mid = n.mid /\ IsFinal(published[j])) =>
              published[j].channel = n.channel /\ published[j].chat_id = n.chat_id

\* C29: a valid POST /notify publishes exactly one inbound message carrying
\* the supplied channel and chat_id, returns 200 without waiting for the
\* turn and creates no pending entry, and the turn it triggers runs under
\* the session of that channel and chat_id and sends its final reply there
C29_NotifyRoutesToChannel ==
    /\ [][(NotifyAnswers => NotifyPublishesOne)
             /\ (notify' # notify => UNCHANGED <<pending, fut>>)]_vars
    /\ [](\A i \in DOMAIN notify.sent : NotifyTurnRouted(notify.sent[i]))

\* the sum of one count over the usage of every call that returned; a call
\* without usage, or without that count, adds 0
RECURSIVE SumUsage(_, _)
SumUsage(us, key) ==
    IF us = <<>> THEN 0
    ELSE (IF Head(us).none THEN 0 ELSE MetaGet(Head(us).dict, key, 0))
         + SumUsage(Tail(us), key)
PromptSum == SumUsage(usages, "prompt_tokens")
CompletionSum == SumUsage(usages, "completion_tokens")

\* the footer that reports the two sums, their total and the number of calls
FooterOfSums ==
    <<"\n\n---\n", ToString(PromptSum), " in ", ToString(CompletionSum), " out ",
      ToString(PromptSum + CompletionSum), " total ", ToString(llm_calls),
      IF llm_calls # 1 THEN " calls" ELSE " call">>

\* the step that publishes the reply of a turn
ReplyStep == epc = "reply" /\ epc' = "idle"

IsOrigin(chat_id, pair) ==
    IF \A i \in DOMAIN chat_id : chat_id[i] # ":"
    THEN pair = <<S("cli"), chat_id>>
    ELSE /\ pair[1] \o Colon \o pair[2] = chat_id
         /\ \A i \in DOMAIN pair[1] : pair[1][i] # ":"

\* C31: for an inbound on channel "system" the engine splits chat_id at its
\* first ":" into (origin_channel, origin_chat_id), ("cli", chat_id) when
\* there is none, and uses that pair for the session key, for the tool
\* contexts and as channel and chat_id of the turn's reply
C31_SystemOrigin ==
    /\ []((epc # "idle" /\ IsSystem(cur)) =>
             /\ IsOrigin(cur.chat_id, toolCtx)
             /\ skey = toolCtx[1] \o Colon \o toolCtx[2])
    /\ [][(ReplyStep /\ IsSystem(cur)) =>
             /\ IsFinal(published'[Len(published')])
             /\ IsOrigin(cur.chat_id, <<published'[Len(published')].channel,
                                        published'[Len(published')].chat_id>>)]_vars

\* the announcement with chat_id "web:room:7" was answered on channel "web",
\* chat "room:7", and its session is "web:room:7"
C31_Witness ==
    /\ <<"web", ":", "room", ":", "7">> \in DOMAIN sessions
    /\ \E j \in DOMAIN published :
          /\ IsFinal(published[j])
          /\ IsSystem(published[j].src)
          /\ published[j].channel = S("web")
          /\ published[j].chat_id = <<"room", ":", "7">>

\* the step that publishes the error reply of a turn
ErrorStep == epc = "error" /\ epc' = "idle"

\* C32: when the LLM call raises in a system-channel turn whose chat_id
\* encodes the origin "c:x", the error outbound is final and is addressed to
\* the originating channel c and chat x
C32_SystemErrorToOrigin ==
    [][(ErrorStep /\ IsSystem(cur) /\ \E i \in DOMAIN cur.chat_id : cur.chat_id[i] = ":") =>
          /\ IsFinal(published'[Len(published')])
          /\ IsOrigin(cur.chat_id, <<published'[Len(published')].channel,
                                     published'[Len(published')].chat_id>>)]_vars

\* the names of the tool calls the LLM has asked for in this turn, in the
\* order of its responses and of the calls within each response
RECURSIVE CallNames(_)
CallNames(msgs) ==
    IF msgs = <<>> THEN <<>>
    ELSE (IF HasCalls(Head(msgs))
          THEN [i \in DOMAIN Head(msgs).tool_calls |-> Head(msgs).tool_calls[i].function.name]
          ELSE <<>>) \o CallNames(Tail(msgs))

IsDebug(o) == MetaGet(o.metadata, "is_debug", FALSE)

\* the debug messages of the turn for message m, in the order of publication
DebugsOf(m) == SelectSeq(published, LAMBDA o : o.src.mid = m /\ IsDebug(o))

\* C33: within one turn outbound messages are published in the order the
\* engine produces them: the debug message of each tool call is published
\* right after that call and before the next one, in tool-call order, all of
\* them before the is_final outbound of the turn, and nothing of the turn is
\* published after its is_final outbound
C33_OutboundOrder ==
    /\ (epc # "idle" /\ debug.log_tool_calls) =>
          /\ Len(DebugsOf(cur.mid)) = Len(tool_actions) - (IF epc = "debug" THEN 1 ELSE 0)
          /\ \A j \in DOMAIN DebugsOf(cur.mid) :
                DebugsOf(cur.mid)[j].content[2] = CallNames(messages)[j]
          /\ FinalsOf(cur.mid) = {}
    /\ \A m \in 1..nextMid : \A i, j \in OutsOf(m) : i < j => ~ IsFinal(published[i])

\* a turn with two tool calls has published their two debug messages, in
\* call order, and then its final reply
C33_Witness ==
    \E i, j, k \in DOMAIN published :
        /\ i < j /\ j < k
        /\ published[i].src.mid = published[k].src.mid
        /\ published[j].src.mid = published[k].src.mid
        /\ IsDebug(published[i]) /\ published[i].content[2] = ToolName(1)
        /\ IsDebug(published[j]) /\ published[j].content[2] = ToolName(2)
        /\ IsFinal(published[k])

\* the POST tasks that were scheduled and have not completed
Scheduled == DOMAIN webhook.tasks
Uncompleted == {i \in Scheduled : webhook.tasks[i].post = "pending"}
\* the tasks that completed and whose done callback has not run yet
AwaitingCallback ==
    {i \in Scheduled : webhook.tasks[i].post # "pending" /\ ~ webhook.tasks[i].notified}

\* C34 as stated: at every moment the task set of the emitter is exactly the
\* set of the scheduled POST tasks that have not completed
C34_SetIsUncompleted == webhook._background_tasks = Uncompleted

\* C34: the task set of the emitter holds every scheduled POST task that has
\* not completed and, besides those, only completed tasks whose done
\* callback the event loop has not run yet; a handle enters the set in the
\* step that schedules its task, leaves it only after the task completed,
\* and the set is empty once every task completed and its callback ran
C34_SetRetainsUntilCallback ==
    /\ [](webhook._background_tasks = Uncompleted \cup AwaitingCallback)
    /\ [][ /\ Scheduled' \ Scheduled \subseteq webhook'._background_tasks
           /\ webhook'._background_tasks \ webhook._background_tasks
                  \subseteq Scheduled' \ Scheduled
           /\ \A i \in webhook._background_tasks \ webhook'._background_tasks :
                  webhook.tasks[i].post # "pending" ]_vars
    /\ []((\A i \in Scheduled : webhook.tasks[i].notified)
              => webhook._background_tasks = {})
C34_Witness ==
    /\ Len(webhook.tasks) = MaxEvents
    /\ webhook.tasks[1].post = "failed" /\ webhook.tasks[1].notified
    /\ webhook.tasks[2].post = "ok" /\ ~ webhook.tasks[2].notified
    /\ webhook.tasks[3].post = "pending"
    /\ webhook._background_tasks = {2, 3}

\* the step is one of a POST task or of its done callback
PostStep == Len(webhook'.tasks) = Len(webhook.tasks) /\ webhook' # webhook

\* what lets the engine take its next step, by the engine's own state and
\* the outbound queue
EngineCanStep ==
    \/ running /\ epc = "idle" /\ inbound # <<>>
    \/ epc \in {"tools", "finish"}
    \/ epc \in {"debug", "reply", "error"} /\ CanPublish(outbound)

\* C35: webhook POSTs have no effect on the turn: a POST that succeeds or
\* fails, and the done callback after it, change nothing but the emitter's
\* tasks (not the tool calls executed, the session records, the session
\* files or the outbounds published), and the engine's next step can be
\* taken exactly when its own state and the outbound queue allow it,
\* whatever POST tasks are still running
C35_PostsLeaveTurnAlone ==
    /\ [][PostStep => UNCHANGED hookFrame]_vars
    /\ [](EngineCanStep <=> ENABLED EngineOwnStep)
C35_Witness ==
    /\ Len(webhook.tasks) = 3
    /\ webhook.tasks[1].post = "failed"
    /\ webhook.tasks[2].post = "ok"
    /\ webhook.tasks[3].post = "pending"
    /\ \E m \in Completed : FinalsOf(m) # {}
    /\ \E k \in DOMAIN sessions : Len(sessions[k].messages) = 2

\* dequeued messages whose turn ended, or is ending, with the error reply
ErrorTurns ==
    {m \in Dequeued :
        \/ epc = "error" /\ m = cur.mid
        \/ \E i \in FinalsOf(m) : StartsWith(published[i].content, ErrorPrefix)}

\* records of the turn for message m in the cached sessions and in the files
CachedRecordsOf(m) ==
    {<<k, i>> \in (DOMAIN sessions) \X (1..(2 * MaxMsgs)) :
        i <= Len(sessions[k].messages) /\ sessions[k].messages[i].timestamp = m}
FileRecordsOf(m) ==
    {<<path, i>> \in (DOMAIN disk) \X (1..(2 * MaxMsgs + 1)) :
        /\ i <= Len(disk[path])
        /\ disk[path][i].text = "json"
        /\ "timestamp" \in DOMAIN disk[path][i].data
        /\ disk[path][i].data.timestamp = m}

\* C36: a turn whose LLM call raises leaves the session as it was: from the
\* first LLM call of a turn up to its error reply no step changes a cached
\* session or a session file, and neither holds a record of such a turn,
\* also when the turn executed tools before the call that raised
C36_ErrorTurnLeavesSession ==
    /\ [][ (epc \in {"llm", "tools", "debug", "error"}) => UNCHANGED <<sessions, disk>> ]_vars
    /\ [](\A m \in ErrorTurns : CachedRecordsOf(m) = {} /\ FileRecordsOf(m) = {})
C36_Witness ==
    /\ epc = "error"
    /\ iteration = 2
    /\ tool_actions # <<>>
    /\ \E m \in Completed \ ErrorTurns : CachedRecordsOf(m) # {} /\ FileRecordsOf(m) # {}

\* messages alternates user, assistant, starting with user, in even length
Alternates(msgs) ==
    /\ Len(msgs) % 2 = 0
    /\ \A i \in DOMAIN msgs : msgs[i].role = (IF i % 2 = 1 THEN "user" ELSE "assistant")

\* the pairs the backward walk of get_structured_context collects
PairsFound(msgs) == Len(CollectPairs(msgs, Len(msgs), <<>>, max_pairs))

\* turns that ended with their reply
RepliedTurns == Completed \ ErrorTurns

\* C37 as stated: between turns the messages of the session alternate and
\* the backward walk finds as many pairs as turns have completed
C37_PairsEqualTurns ==
    (epc = "idle" /\ LongKey \in DOMAIN sessions)
        => /\ Alternates(sessions[LongKey].messages)
           /\ PairsFound(sessions[LongKey].messages) = Cardinality(RepliedTurns)

\* C37: the messages of a session that started empty alternate user,
\* assistant at all times, two records per turn that ended with its reply
\* and none for a turn that ended with the error reply, and the backward
\* walk, which stops at max_pairs pairs, finds the smaller of max_pairs and
\* the number of turns that ended with their reply
C37_AlternatesAndCappedPairs ==
    \A k \in DOMAIN sessions :
        /\ Alternates(sessions[k].messages)
        /\ epc = "idle" =>
              /\ Len(sessions[k].messages) = 2 * Cardinality(RepliedTurns)
              /\ PairsFound(sessions[k].messages) = Min(max_pairs, Cardinality(RepliedTurns))
C37_Witness ==
    /\ epc = "idle"
    /\ Cardinality(RepliedTurns) = max_pairs + 1
    /\ PairsFound(sessions[LongKey].messages) = max_pairs
    /\ Alternates(sessions[LongKey].messages)

\* the user and assistant records of the turn for message m, next to each
\* other in msgs
TurnPairs(msgs, m) ==
    {i \in 1..(Len(msgs) - 1) :
        /\ msgs[i].role = "user" /\ msgs[i].timestamp = m
        /\ msgs[i + 1].role = "assistant" /\ msgs[i + 1].timestamp = m}

\* the file of the turn's session holds the records of the turn
SavedTurn == TurnPairs(load(disk, skey).messages, cur.mid) # {}

\* the /chat handler of request r has returned 200
Answered200(r) == hpc[r] = "done" /\ hresp[r].status = 200

\* the inbound message of request r, once its turn has published (0 before)
MidOf(r) ==
    LET mids == {published[i].src.mid : i \in {j \in DOMAIN published :
                                                  published[j].src.chat_id = r}}
    IN IF mids = {} THEN 0 ELSE CHOOSE m \in mids : TRUE

\* the LLM message array ms holds the exchange of request r among its
\* recent pairs, between the system prompt and the current message
HasExchange(ms, r) ==
    LET stored == sessions[hsid[r]].messages
    IN \E i \in TurnPairs(stored, MidOf(r)), j \in 2..(Len(ms) - 2) :
          /\ ms[j] = [role |-> "user", content |-> stored[i].content]
          /\ ms[j + 1] = [role |-> "assistant", content |-> stored[i + 1].content]

\* the engine starts the turn of a /chat request on the session of request r
FollowUpStep(r) ==
    /\ epc = "idle" /\ epc' = "llm"
    /\ cur'.channel = ApiName
    /\ cur'.chat_id # r
    /\ skey' = hsid[r]

WaitingHandlers == {r \in ReqIds : hpc[r] \in {"publish", "wait", "timerwake", "timedout"}}

\* C39: the pending map holds no stale entry: its keys are request ids whose
\* handlers have not returned yet, so a handler that returned 200, 504 or
\* 499 has left no entry behind
C39_NoStalePending == pending \subseteq WaitingHandlers

\* the step is one of save(session) for the session of key k: the file is
\* opened, or a line is written to it
SaveStepOf(k) ==
    \/ savePc = "idle" /\ savePc' = "writing" /\ saveKey' = k
    \/ savePc = "writing" /\ saveKey = k /\ disk' # disk

\* C40: sessions with distinct keys are persisted independently: no step of
\* saving the session of one key changes what loading another key returns,
\* also for keys that differ only in ":" and "_"
C40_KeysIndependent ==
    [][\A k1 \in StoreKeys, k2 \in StoreKeys :
          (k1 # k2 /\ SaveStepOf(k1)) => load(disk', k2) = load(disk, k2)]_vars
====
